---- MODULE Spec2Model ----
(***************************************************************************)
(* Notebooks of Coronagraphy_ExampleNB as state machines.                  *)
(*                                                                         *)
(* Spec     the HD141569A background-subtraction notebook: a run of its    *)
(*          cells, top to bottom, over the contents of data_folder.        *)
(* SpecLive the same notebook with the fairness of its bgnd_imgs cell,     *)
(*          for the termination of the flattening loop.                    *)
(* SpecERS  the JWST-ERS-01386 Stage 3 notebook: the MAST download loop,   *)
(*          the copy to the working folder and the background-subtraction  *)
(*          cells.                                                         *)
(* SpecDemos the pipeline_demos notebooks calwebb_coron3 and full_pipeline *)
(*          run top to bottom, each from its own initial states.           *)
(*                                                                         *)
(* An uncaught exception ends the run of a notebook (pc = "error"); what   *)
(* the cell had done before raising stays done.                            *)
(***************************************************************************)
EXTENDS Integers, Sequences, FiniteSets, TLC

\* ------------------------------------------------------------------ bounds
\* most exposures of one background observation in data_folder
MaxExp == 3
\* most exposures (dithers) of one target observation in data_folder
MaxTargExp == 2
\* largest number of axes of a background exposure's SCI array
MaxDim == 4
\* length of every leading (non-image) axis of a SCI array
NInts == 2
\* image width in pixels (the image height is 1)
NX == 2
\* dithers of the PSF reference star among the Stage 2 products that the
\* calwebb_coron3 notebook may find
NDither == 2

\* ------------------------------------------------- numbers (float pixels)
\* A pixel is a rational <<n, d>> in lowest terms with d > 0, or NaN.
NaN == <<0, 0>>

IsNaN(x) == x[2] = 0

RECURSIVE GCD(_, _)
GCD(a, b) == IF b = 0 THEN a ELSE GCD(b, a % b)

Abs(n) == IF n < 0 THEN -n ELSE n

Rat(n, d) == LET g == GCD(Abs(n), d) IN <<n \div g, d \div g>>

Num(n) == <<n, 1>>

RLess(a, b) == a[1] * b[2] < b[1] * a[2]

\* IEEE arithmetic: NaN in, NaN out
FAdd(a, b) == IF IsNaN(a) \/ IsNaN(b) THEN NaN
              ELSE Rat(a[1] * b[2] + b[1] * a[2], a[2] * b[2])

FSub(a, b) == IF IsNaN(a) \/ IsNaN(b) THEN NaN
              ELSE Rat(a[1] * b[2] - b[1] * a[2], a[2] * b[2])

FDivInt(a, k) == IF IsNaN(a) THEN NaN ELSE Rat(a[1], a[2] * k)

\* ------------------------------------------------------- sequence helpers
RECURSIVE SeqSum(_)
SeqSum(s) == IF s = <<>> THEN Num(0) ELSE FAdd(Head(s), SeqSum(Tail(s)))

RECURSIVE Concat(_)
Concat(ss) == IF ss = <<>> THEN <<>> ELSE Head(ss) \o Concat(Tail(ss))

Range(s) == {s[i] : i \in 1..Len(s)}

EndsWith(s, t) == /\ Len(s) >= Len(t)
                  /\ SubSeq(s, Len(s) - Len(t) + 1, Len(s)) = t

StartsWith(s, t) == /\ Len(s) >= Len(t)
                    /\ SubSeq(s, 1, Len(t)) = t

\* the values of s that are not NaN, in order
NotNaN(s) == SelectSeq(s, LAMBDA x : ~IsNaN(x))

\* ------------------------------------------------------------ numpy arrays
\* An ndarray is its shape and its elements in C order.
NDArray(shape, data) == [shape |-> shape, data |-> data]

RECURSIVE Size(_)
Size(shape) == IF shape = <<>> THEN 1 ELSE Head(shape) * Size(Tail(shape))

ndim(a) == Len(a.shape)

\* numpy.nanmin over a 1-D slice: the least value that is not NaN (NaN if none)
nanmin(vals) ==
    LET v == NotNaN(vals)
    IN IF v = <<>> THEN NaN
       ELSE CHOOSE m \in Range(v) : \A x \in Range(v) : ~RLess(x, m)

\* numpy.nanmedian over a 1-D slice: the middle of the sorted non-NaN values,
\* the mean of the two middle ones when their number is even (NaN if none)
nanmedian(vals) ==
    LET v == SortSeq(NotNaN(vals), RLess)
        k == Len(v)
    IN IF k = 0 THEN NaN
       ELSE IF k % 2 = 1 THEN v[(k + 1) \div 2]
       ELSE FDivInt(FAdd(v[k \div 2], v[k \div 2 + 1]), 2)

\* numpy.nanmean over a 1-D slice: the mean of the non-NaN values (NaN if none)
nanmean(vals) ==
    LET v == NotNaN(vals)
    IN IF v = <<>> THEN NaN ELSE FDivInt(SeqSum(v), Len(v))

\* func(a, axis=0): func applied to every slice along the first axis
ReduceAxis0(func(_), a) ==
    LET n == Head(a.shape)
        rest == Tail(a.shape)
        stride == Size(rest)
    IN NDArray(rest,
               [j \in 1..stride |->
                    func([i \in 1..n |-> a.data[(i - 1) * stride + j]])])

\* numpy.stack(arrays): a new first axis; the arrays have one shape
stack(arrays) ==
    NDArray(<<Len(arrays)>> \o arrays[1].shape,
            Concat([i \in 1..Len(arrays) |-> arrays[i].data]))

\* a - b where the shape of b is the trailing part of the shape of a
\* (numpy broadcasting: b is repeated along the leading axes of a)
BroadcastSub(a, b) ==
    LET nb == Size(b.shape)
    IN NDArray(a.shape,
               [i \in 1..Len(a.data) |->
                    FSub(a.data[i], b.data[((i - 1) % nb) + 1])])

\* ------------------------------------------------------------------ dicts
\* A Python dict is the sequence of its <<key, value>> items in insertion order.
Keys(d) == [i \in 1..Len(d) |-> d[i][1]]

HasKey(d, k) == \E i \in 1..Len(d) : d[i][1] = k

Get(d, k) == d[CHOOSE i \in 1..Len(d) : d[i][1] = k][2]

\* d[k] = v: replaces the value in place, or appends a new item
Put(d, k, v) ==
    IF HasKey(d, k)
    THEN [i \in 1..Len(d) |-> IF d[i][1] = k THEN <<k, v>> ELSE d[i]]
    ELSE Append(d, <<k, v>>)

\* dict(pairs): later pairs win
RECURSIVE DictOf(_)
DictOf(pairs) ==
    IF pairs = <<>> THEN <<>>
    ELSE LET p == pairs[Len(pairs)]
         IN Put(DictOf(SubSeq(pairs, 1, Len(pairs) - 1)), p[1], p[2])

\* ------------------------------------------------------- names and paths
\* A file name or path is the sequence of its characters; a run of characters
\* that no operation of the notebooks splits is written as one element.
Digits == <<"0", "1", "2", "3", "4", "5", "6", "7", "8", "9">>

DigitVal(c) == (CHOOSE i \in 1..10 : Digits[i] = c) - 1

LastIndexOf(s, c) ==
    IF \E i \in 1..Len(s) : s[i] = c
    THEN CHOOSE i \in 1..Len(s) : s[i] = c /\ \A j \in (i + 1)..Len(s) : s[j] # c
    ELSE 0

\* pathlib: Path(dir) / name
PathJoin(dir, nm) == <<dir, "/">> \o nm

\* pathlib: Path.name, Path.parent, Path.suffix, Path.stem, Path.with_suffix
name(p) == SubSeq(p, LastIndexOf(p, "/") + 1, Len(p))

parent(p) == SubSeq(p, 1, LastIndexOf(p, "/") - 1)

suffix(p) ==
    LET n == name(p)
        i == LastIndexOf(n, ".")
    IN IF i > 1 /\ i < Len(n) THEN SubSeq(n, i, Len(n)) ELSE <<>>

stem(p) == LET n == name(p) IN SubSeq(n, 1, Len(n) - Len(suffix(p)))

with_suffix(p, suf) == SubSeq(p, 1, LastIndexOf(p, "/")) \o stem(p) \o suf

\* the order of sorted() on the exposure names of one program: the names have
\* one format and differ in the observation number (characters 7..9) and the
\* exposure digit (character 11 of the model's name) only
SortKey(nm) ==
    1000 * DigitVal(nm[8]) + 100 * DigitVal(nm[9]) + 10 * DigitVal(nm[10])
    + DigitVal(nm[12])

RECURSIVE SetToSeq(_)
SetToSeq(S) ==
    IF S = {} THEN <<>>
    ELSE LET x == CHOOSE y \in S : TRUE IN <<x>> \o SetToSeq(S \ {x})

sorted(S) ==
    LET all == SetToSeq(S)
        keyed == SortSeq([i \in 1..Len(all) |-> <<SortKey(all[i]), all[i]>>],
                         LAMBDA a, b : a[1] < b[1])
    IN [i \in 1..Len(keyed) |-> keyed[i][2]]

\* Path(dir).glob(pre + "*" + post): the names in dir that start with pre and
\* end with post
glob(files, dir, pre, post) ==
    {name(p) : p \in {q \in DOMAIN files :
                        /\ parent(q) = <<dir>>
                        /\ StartsWith(name(q), pre)
                        /\ EndsWith(name(q), post)}}

\* ------------------------------------------------------------- FITS files
\* A FITS file is the list of its HDUs; an HDU is a header and a data array.
HDUNames == <<"PRIMARY", "SCI", "ERR", "DQ", "ASDF">>

\* astropy.io.fits.getdata(path, ext)
getdata(files, path, ext) == files[path][ext + 1].data

\* =====================================================================
\* The HD141569A background-subtraction notebook
\* =====================================================================
VARIABLES
    pc,                \* the cell (or the place in a cell) that runs next
    fs,                \* the FITS files on disk: path -> list of HDUs
    json_fs,           \* the association files on disk: path -> text
    data_files,        \* list of exposure names
    obsnum_filenames,  \* dict: exposure name -> observation number
    bgnd_files,        \* dict: background observation number -> exposure names
    bgnd_imgs,         \* dict: background observation number -> composite
    bgnd_i,            \* bgnd_imgs cell: the item of bgnd_files being combined
    bgnd_img,          \* bgnd_imgs cell: the local variable bgnd_img
    nflat,             \* bgnd_imgs cell: passes of the while loop so far
    bgnd_img_mapper,   \* dict: target name -> [targ, bgnd]
    bgnd_sub_imgs,     \* dict: target name -> background-subtracted image
    obsnum_files,      \* dict: bgsub name -> observation number
    sect,              \* which of the three Level 3 sections runs (1..3)
    sci,               \* dict: bgsub name -> observation number (science)
    ref,               \* dict: bgsub name -> observation number (reference)
    files,             \* dict: path -> "science" or "psf"
    cor3_calls         \* the calls of Coron3Pipeline.call so far

hdvars == <<pc, fs, json_fs, data_files, obsnum_filenames, bgnd_files,
            bgnd_imgs, bgnd_i, bgnd_img, nflat, bgnd_img_mapper,
            bgnd_sub_imgs, obsnum_files, sect, sci, ref, files, cor3_calls>>

\* The state of the ERS-01386 Stage 3 notebook
VARIABLES
    epc,               \* the cell the ERS-01386 notebook is at
    dir_exists,        \* whether the directory out_dir exists
    dir_writable,      \* whether out_dir can be written to
    failed,            \* the products whose HTTP request fails
    ers_fs,            \* the files under the notebook's directory: path -> content
    nvisited,          \* the products the download loop has visited
    opened,            \* (history) the paths the download loop opened for writing
    existed,           \* (history) the products whose file existed when visited
    fs0,               \* (history) the files before the download loop
    after_loop,        \* (history) <<the files when the download cell ended>>
    ers_data_files,    \* data_files
    hdr_df,            \* the rows of hdr_df: one primary header per file
    sci_targ_files,    \* rows of hdr_df
    sci_bgnd_file,     \* rows of hdr_df
    ref_targ_files,    \* rows of hdr_df
    ref_bgnd_file,     \* rows of hdr_df
    ers_cor3,          \* the calls of Coron3Pipeline.call so far
    guards_on          \* (history) the subtraction cells run with guard True

ersvars == <<epc, dir_exists, dir_writable, failed, ers_fs, nvisited, opened,
             existed, fs0, after_loop, ers_data_files, hdr_df, sci_targ_files,
             sci_bgnd_file, ref_targ_files, ref_bgnd_file, ers_cor3,
             guards_on>>

\* the ERS-01386 notebook is not being run
ErsIdle ==
    /\ epc = "idle"
    /\ dir_exists = FALSE
    /\ dir_writable = FALSE
    /\ failed = {}
    /\ ers_fs = <<>>
    /\ nvisited = 0
    /\ opened = {}
    /\ existed = {}
    /\ fs0 = <<>>
    /\ after_loop = <<>>
    /\ ers_data_files = <<>>
    /\ hdr_df = <<>>
    /\ sci_targ_files = <<>>
    /\ sci_bgnd_file = <<>>
    /\ ref_targ_files = <<>>
    /\ ref_bgnd_file = <<>>
    /\ ers_cor3 = <<>>
    /\ guards_on = {}

\* The state of the pipeline_demos notebooks calwebb_coron3 and full_pipeline
VARIABLES
    c3pc,              \* the cell the calwebb_coron3 notebook is at
    fpc,               \* the cell the full_pipeline notebook is at
    demo_fs,           \* the files under pipeline_demos/: path -> content
    c3_filenames,      \* calwebb_coron3: filenames
    c3_files,          \* calwebb_coron3: files, a dict of lists
    c3_asn,            \* calwebb_coron3: asn
    fp_i,              \* full_pipeline: files the Stage 1 loop has been through
    det1_files,        \* full_pipeline: det1_files
    fp_files,          \* full_pipeline: files of the Stage 2 cells
    asn_sci,           \* full_pipeline: asn_sci
    asn_psf,           \* full_pipeline: asn_psf
    img2_files,        \* full_pipeline: img2_files
    fp_files3,         \* full_pipeline: files of the Stage 3 cells
    fp_asn,            \* full_pipeline: asn
    calls              \* the calls of the pipeline classes so far, in order

demovars == <<c3pc, fpc, demo_fs, c3_filenames, c3_files, c3_asn, fp_i,
              det1_files, fp_files, asn_sci, asn_psf, img2_files, fp_files3,
              fp_asn, calls>>

\* neither of the two notebooks is being run
DemoIdle ==
    /\ c3pc = "idle"
    /\ fpc = "idle"
    /\ demo_fs = <<>>
    /\ c3_filenames = <<>>
    /\ c3_files = <<>>
    /\ c3_asn = <<>>
    /\ fp_i = 0
    /\ det1_files = <<>>
    /\ fp_files = <<>>
    /\ asn_sci = <<>>
    /\ asn_psf = <<>>
    /\ img2_files = <<>>
    /\ fp_files3 = <<>>
    /\ fp_asn = <<>>
    /\ calls = <<>>

data_folder == "mast_data/01386-2/01386"
bgsub_path == "test/bgnd_sub_imgs"
output_parent == "test"
pipeline_output == "test/pipeline_output"

\* the target observations
targ_obsnums == << <<"0", "1", "9">>, <<"0", "2", "0">>, <<"0", "2", "1">>,
                   <<"0", "2", "2">>, <<"0", "2", "3">>, <<"0", "2", "4">>,
                   <<"0", "2", "5">>, <<"0", "2", "6">>, <<"0", "2", "7">> >>

\* (target, background) pairs
bgnd_obsnum_mapper ==
    << << <<"0", "1", "9">>, <<"0", "3", "2">> >>,
       << <<"0", "2", "0">>, <<"0", "3", "2">> >>,
       << <<"0", "2", "1">>, <<"0", "3", "3">> >>,
       << <<"0", "2", "2">>, <<"0", "3", "4">> >>,
       << <<"0", "2", "3">>, <<"0", "3", "4">> >>,
       << <<"0", "2", "4">>, <<"0", "3", "5">> >>,
       << <<"0", "2", "5">>, <<"0", "3", "5">> >>,
       << <<"0", "2", "6">>, <<"0", "3", "6">> >>,
       << <<"0", "2", "7">>, <<"0", "3", "7">> >> >>

\* bgnd_obsnums = [i[1] for i in bgnd_obsnum_mapper]
bgnd_obsnums == [i \in 1..Len(bgnd_obsnum_mapper) |-> bgnd_obsnum_mapper[i][2]]

\* Python's name[7:10]
ObsnumOf(nm) == SubSeq(nm, 8, 10)

\* ---------------------------------------------------- the data on disk
\* jw01386<obs>001_03101_0000<e>_mirimage_<kind>.fits
ExposureName(obs, e, kind) ==
    <<"j", "w", "0", "1", "3", "8", "6">> \o obs
    \o <<"001_03101_0000", Digits[e + 1], "_mirimage_", kind, ".", "fits">>

\* the shape of a SCI array with d axes: an image of 1 x NX pixels under
\* d - 2 leading axes of length NInts
Shape(d) == [i \in 1..(d - 2) |-> NInts] \o <<1, NX>>

\* a ramp of pixel values from v; with nan1, the first pixel is NaN
Ramp(shape, v, nan1) ==
    NDArray(shape, [i \in 1..Size(shape) |->
                        IF nan1 /\ i = 1 THEN NaN ELSE Num(v + i - 1)])

\* a calints file: the primary header carries the FILENAME keyword
FitsFile(nm, sci_data) ==
    [h \in 1..Len(HDUNames) |->
        [hdr |-> IF h = 1 THEN <<HDUNames[h]>> \o nm ELSE <<HDUNames[h]>>,
         data |-> IF h = 2 THEN sci_data ELSE NDArray(<<0>>, <<>>)]]

\* the generated exposures: <<first pixel value, whether the first pixel is NaN>>
ExpParams == {0, 1} \X BOOLEAN

\* the background exposures of observation obs: one per element of params
BgndExposures(obs, d, params) ==
    [x \in {PathJoin(data_folder, ExposureName(obs, e, "calints")) :
                e \in 1..Len(params)} |->
        LET e == DigitVal(x[14])
        IN FitsFile(name(x), Ramp(Shape(d), params[e][1], params[e][2]))]

\* nt exposures of every target observation, 3-D as calints files are
TargExposures(nt) ==
    [x \in {PathJoin(data_folder, ExposureName(targ_obsnums[t], e, "calints")) :
                t \in 1..Len(targ_obsnums), e \in 1..nt} |->
        LET e == DigitVal(x[14])
            o == DigitVal(x[12])
        IN FitsFile(name(x), Ramp(Shape(3), 10 + 2 * o + e, e = 1))]

\* files the notebook must leave alone: an exposure of an observation that is
\* neither target nor background, and a target's rateints file
OtherFiles ==
    LET a == PathJoin(data_folder, ExposureName(<<"0", "4", "0">>, 1, "calints"))
        b == PathJoin(data_folder, ExposureName(<<"0", "1", "9">>, 1, "rateints"))
    IN (a :> FitsFile(name(a), Ramp(Shape(3), 7, FALSE)))
       @@ (b :> FitsFile(name(b), Ramp(Shape(3), 8, FALSE)))

\* The contents of data_folder: the background observation focus has one
\* exposure with d axes for each element of params, every other background
\* observation has one 3-D exposure, and every target observation has nt.
DataFolder(focus, d, params, nt) ==
    LET Others(k) ==
            IF bgnd_obsnums[k] = focus THEN <<>>
            ELSE <<BgndExposures(bgnd_obsnums[k], 3,
                                 <<<<DigitVal(bgnd_obsnums[k][3]), FALSE>>>>)>>
        RECURSIVE Merge(_)
        Merge(k) == IF k = 0 THEN OtherFiles
                    ELSE IF Others(k) = <<>> THEN Merge(k - 1)
                    ELSE Others(k)[1] @@ Merge(k - 1)
    IN BgndExposures(focus, d, params) @@ TargExposures(nt)
       @@ Merge(Len(bgnd_obsnums))

ParamSeqs == UNION {[1..n -> ExpParams] : n \in 0..MaxExp}

\* The data folders of the runs:
\*  - any one background observation with 0..MaxExp 3-D exposures of any of
\*    the generated contents, one exposure per target observation;
\*  - the same for the first background observation with exposures of
\*    2..MaxDim axes;
\*  - one exposure per background observation and 0..MaxTargExp exposures
\*    per target observation.
DataFolders ==
    {DataFolder(b, 3, ps, 1) : b \in Range(bgnd_obsnums), ps \in ParamSeqs}
    \cup {DataFolder(bgnd_obsnums[1], d, ps, 1) : d \in 2..MaxDim, ps \in ParamSeqs}
    \cup {DataFolder(<<>>, 3, <<>>, nt) : nt \in 0..MaxTargExp}

InitWith(folders) ==
    /\ pc = "load"
    /\ fs \in folders
    /\ json_fs = <<>>
    /\ data_files = <<>>
    /\ obsnum_filenames = <<>>
    /\ bgnd_files = <<>>
    /\ bgnd_imgs = <<>>
    /\ bgnd_i = 0
    /\ bgnd_img = NDArray(<<0>>, <<>>)
    /\ nflat = 0
    /\ bgnd_img_mapper = <<>>
    /\ bgnd_sub_imgs = <<>>
    /\ obsnum_files = <<>>
    /\ sect = 0
    /\ sci = <<>>
    /\ ref = <<>>
    /\ files = <<>>
    /\ cor3_calls = <<>>
    /\ ErsIdle
    /\ DemoIdle

InitHD == InitWith(DataFolders)

\* ------------------------------------------------ load and index the files
\* data_files = sorted(data_folder.glob("j*calints.fits")), and
\* obsnum_filenames = {f.name: Path(f).name[7:10] for f in data_files}
LoadCell ==
    /\ pc = "load"
    /\ data_files' = sorted(glob(fs, data_folder, <<"j">>, <<"calints", ".", "fits">>))
    /\ obsnum_filenames' = DictOf([i \in 1..Len(data_files') |->
                                      <<data_files'[i], ObsnumOf(data_files'[i])>>])
    /\ pc' = "bgnd_files"
    /\ UNCHANGED <<fs, json_fs, bgnd_files, bgnd_imgs, bgnd_i, bgnd_img, nflat,
                   bgnd_img_mapper, bgnd_sub_imgs, obsnum_files, sect, sci, ref,
                   files, cor3_calls>>
    /\ UNCHANGED <<ersvars, demovars>>

\* for f, num in obsnum_filenames.items():
\*     if num in bgnd_obsnums: bgnd_files[num].append(f)
RECURSIVE AppendBgndFiles(_, _)
AppendBgndFiles(acc, items) ==
    IF items = <<>> THEN acc
    ELSE LET f == Head(items)[1]
             num == Head(items)[2]
         IN AppendBgndFiles(
                IF num \in Range(bgnd_obsnums)
                THEN Put(acc, num, Append(Get(acc, num), f))
                ELSE acc,
                Tail(items))

BgndFilesCell ==
    /\ pc = "bgnd_files"
    /\ bgnd_files' = AppendBgndFiles(
                        DictOf([i \in 1..Len(bgnd_obsnums) |-> <<bgnd_obsnums[i], <<>>>>]),
                        obsnum_filenames)
    /\ bgnd_i' = 1
    /\ pc' = "bgnd_for"
    /\ UNCHANGED <<fs, json_fs, data_files, obsnum_filenames, bgnd_imgs, bgnd_img,
                   nflat, bgnd_img_mapper, bgnd_sub_imgs, obsnum_files, sect, sci,
                   ref, files, cor3_calls>>
    /\ UNCHANGED <<ersvars, demovars>>

\* ------------------------------------- the composite background images
\* (mutant) the median as soon as there are two exposures
CombineFuncFromTwo(nfiles, vals) ==
    IF nfiles >= 2 THEN nanmedian(vals) ELSE nanmin(vals)

\* func = np.nanmedian if len(files) > 2 else np.nanmin, applied to a slice
CombineFunc(nfiles, vals) ==
    IF nfiles > 2 THEN nanmedian(vals) ELSE nanmin(vals)

\* bgnd_img = func(np.stack([fits.getdata(data_folder / f, 1) for f in files]), axis=0)
Combine(fls) ==
    LET stacked == stack([i \in 1..Len(fls) |->
                            getdata(fs, PathJoin(data_folder, fls[i]), 1)])
    IN ReduceAxis0(LAMBDA vals : CombineFunc(Len(fls), vals), stacked)

\* (mutant) flattening one axis too far
NotYet1D(img) == ndim(img) > 1

\* the while loop's test
NotYet2D(img) == ndim(img) > 2

\* the loop body up to the while loop, for an observation with exposures
BgndCombine ==
    /\ pc = "bgnd_for"
    /\ bgnd_files[bgnd_i][2] # <<>>
    /\ bgnd_img' = Combine(bgnd_files[bgnd_i][2])
    /\ nflat' = 0
    /\ pc' = "bgnd_while"
    /\ UNCHANGED <<fs, json_fs, data_files, obsnum_filenames, bgnd_files,
                   bgnd_imgs, bgnd_i, bgnd_img_mapper, bgnd_sub_imgs,
                   obsnum_files, sect, sci, ref, files, cor3_calls>>
    /\ UNCHANGED <<ersvars, demovars>>

\* np.stack of an empty list raises ValueError
BgndStackRaises ==
    /\ pc = "bgnd_for"
    /\ bgnd_files[bgnd_i][2] = <<>>
    /\ pc' = "error"
    /\ UNCHANGED <<fs, json_fs, data_files, obsnum_filenames, bgnd_files,
                   bgnd_imgs, bgnd_i, bgnd_img, nflat, bgnd_img_mapper,
                   bgnd_sub_imgs, obsnum_files, sect, sci, ref, files, cor3_calls>>
    /\ UNCHANGED <<ersvars, demovars>>

\* while np.ndim(bgnd_img) > 2: bgnd_img = np.nanmean(bgnd_img, axis=0)
BgndFlatten ==
    /\ pc = "bgnd_while"
    /\ NotYet2D(bgnd_img)
    /\ bgnd_img' = ReduceAxis0(nanmean, bgnd_img)
    /\ nflat' = nflat + 1
    /\ UNCHANGED <<pc, fs, json_fs, data_files, obsnum_filenames, bgnd_files,
                   bgnd_imgs, bgnd_i, bgnd_img_mapper, bgnd_sub_imgs,
                   obsnum_files, sect, sci, ref, files, cor3_calls>>
    /\ UNCHANGED <<ersvars, demovars>>

\* bgnd_imgs[num] = bgnd_img, and on to the next item of bgnd_files
BgndStore ==
    /\ pc = "bgnd_while"
    /\ ~NotYet2D(bgnd_img)
    /\ bgnd_imgs' = Put(bgnd_imgs, bgnd_files[bgnd_i][1], bgnd_img)
    /\ IF bgnd_i < Len(bgnd_files)
       THEN bgnd_i' = bgnd_i + 1 /\ pc' = "bgnd_for"
       ELSE bgnd_i' = bgnd_i /\ pc' = "match"
    /\ UNCHANGED <<fs, json_fs, data_files, obsnum_filenames, bgnd_files,
                   bgnd_img, nflat, bgnd_img_mapper, bgnd_sub_imgs,
                   obsnum_files, sect, sci, ref, files, cor3_calls>>
    /\ UNCHANGED <<ersvars, demovars>>

\* ------------------------------------ match target and background images
\* if targ_obsnum not in targ_obsnums: continue
IsTarget(targ_obsnum) == targ_obsnum \in Range(targ_obsnums)

\* (mutant) an off-by-one row of the table
BgndObsnumOfNextRow(targ_obsnum) ==
    LET i == CHOOSE k \in 1..Len(bgnd_obsnum_mapper) :
                 bgnd_obsnum_mapper[k][1] = targ_obsnum
    IN bgnd_obsnum_mapper[(i % Len(bgnd_obsnum_mapper)) + 1][2]

\* bgnd_obsnum = dict(bgnd_obsnum_mapper)[targ_obsnum]
BgndObsnumOf(targ_obsnum) == Get(DictOf(bgnd_obsnum_mapper), targ_obsnum)

RECURSIVE MatchImages(_, _)
MatchImages(acc, items) ==
    IF items = <<>> THEN acc
    ELSE LET f == Head(items)[1]
             targ_obsnum == Head(items)[2]
         IN MatchImages(
                IF ~IsTarget(targ_obsnum) THEN acc
                ELSE Put(acc, f,
                         [targ |-> getdata(fs, PathJoin(data_folder, f), 1),
                          bgnd |-> Get(bgnd_imgs, BgndObsnumOf(targ_obsnum))]),
                Tail(items))

MatchCell ==
    /\ pc = "match"
    /\ bgnd_img_mapper' = MatchImages(<<>>, obsnum_filenames)
    /\ pc' = "subtract"
    /\ UNCHANGED <<fs, json_fs, data_files, obsnum_filenames, bgnd_files,
                   bgnd_imgs, bgnd_i, bgnd_img, nflat, bgnd_sub_imgs,
                   obsnum_files, sect, sci, ref, files, cor3_calls>>
    /\ UNCHANGED <<ersvars, demovars>>

\* ---------------------------------------------- subtract the backgrounds
\* (mutant) targ_img -= bgnd_img: the subtraction in place
SubtractPairInPlace(pair) ==
    [pair |-> [targ |-> BroadcastSub(pair.targ, pair.bgnd), bgnd |-> pair.bgnd],
     img |-> BroadcastSub(pair.targ, pair.bgnd)]

\* img = targ_img - bgnd_img makes a new array: the pair keeps its arrays
SubtractPair(pair) ==
    [pair |-> pair, img |-> BroadcastSub(pair.targ, pair.bgnd)]

SubtractCell ==
    /\ pc = "subtract"
    /\ bgnd_sub_imgs' = [i \in 1..Len(bgnd_img_mapper) |->
                            <<bgnd_img_mapper[i][1],
                              SubtractPair(bgnd_img_mapper[i][2]).img>>]
    /\ bgnd_img_mapper' = [i \in 1..Len(bgnd_img_mapper) |->
                              <<bgnd_img_mapper[i][1],
                                SubtractPair(bgnd_img_mapper[i][2]).pair>>]
    /\ pc' = "write"
    /\ UNCHANGED <<fs, json_fs, data_files, obsnum_filenames, bgnd_files,
                   bgnd_imgs, bgnd_i, bgnd_img, nflat, obsnum_files, sect, sci,
                   ref, files, cor3_calls>>
    /\ UNCHANGED <<ersvars, demovars>>

\* ------------------------------------------------- write images to file
\* bgsub_name = Path(path) / (targ_file.stem + '_bgsub' + targ_file.suffix)
BgsubName(targ_file, path) ==
    PathJoin(path, stem(targ_file) \o <<"_bgsub">> \o suffix(targ_file))

\* (mutant) the new file without the ASDF extension
write_bgsub_no_asdf(disk, targ_file, img, path) ==
    LET hdus == disk[targ_file]
        out == [h \in 1..(Len(hdus) - 1) |->
                    IF h = 2 THEN [hdus[h] EXCEPT !.data = img] ELSE hdus[h]]
    IN (BgsubName(targ_file, path) :> out) @@ disk

\* write_bgsub(targ_file, img, path): the files on disk afterwards
write_bgsub(disk, targ_file, img, path) ==
    LET hdus == disk[targ_file]
        out == [h \in 1..Len(hdus) |->
                    IF h = 2 THEN [hdus[h] EXCEPT !.data = img] ELSE hdus[h]]
    IN (BgsubName(targ_file, path) :> out) @@ disk

RECURSIVE WriteAll(_, _)
WriteAll(disk, items) ==
    IF items = <<>> THEN disk
    ELSE WriteAll(write_bgsub(disk, PathJoin(data_folder, Head(items)[1]),
                              Head(items)[2], bgsub_path),
                  Tail(items))

WriteCell ==
    /\ pc = "write"
    /\ fs' = WriteAll(fs, bgnd_sub_imgs)
    /\ pc' = "obsnum_files"
    /\ UNCHANGED <<json_fs, data_files, obsnum_filenames, bgnd_files, bgnd_imgs,
                   bgnd_i, bgnd_img, nflat, bgnd_img_mapper, bgnd_sub_imgs,
                   obsnum_files, sect, sci, ref, files, cor3_calls>>
    /\ UNCHANGED <<ersvars, demovars>>

\* ------------------------------------------------------ association files
\* The text of a JSON file is the sequence of its tokens: punctuation, and
\* strings (each the sequence of its characters).
P(x) == [t |-> "p", v |-> <<x>>]

S(x) == [t |-> "s", v |-> x]

RECURSIVE Join(_, _)
Join(sep, parts) ==
    IF parts = <<>> THEN <<>>
    ELSE IF Len(parts) = 1 THEN parts[1]
    ELSE parts[1] \o sep \o Join(sep, Tail(parts))

\* "expname": "{key}", "exptype": "{val}"
EntryLine(key, val) ==
    <<S(<<"expname">>), P(":"), S(key), P(","), S(<<"exptype">>), P(":"), S(val)>>

\* make_entries: the lines of the items, joined by "},{"
make_entries(filedict) ==
    Join(<<P("}"), P(","), P("{")>>,
         [i \in 1..Len(filedict) |-> EntryLine(filedict[i][1], filedict[i][2])])

\* the f-string template of write_dummy_asn
AsnTemplate(nm, file_str) ==
    <<P("{"),
      S(<<"asn_type">>), P(":"), S(<<"coron3">>), P(","),
      S(<<"asn_rule">>), P(":"), S(<<"candidate_Asn_Lv3Coron">>), P(","),
      S(<<"program">>), P(":"), S(nm), P(","),
      S(<<"asn_id">>), P(":"), S(<<"c1001">>), P(","),
      S(<<"target">>), P(":"), S(<<"dummy">>), P(","),
      S(<<"asn_pool">>), P(":"), S(nm \o <<"-pool">>), P(","),
      S(<<"products">>), P(":"), P("["), P("{"),
      S(<<"name">>), P(":"), S(nm), P(","),
      S(<<"members">>), P(":"), P("["), P("{")>>
    \o file_str
    \o <<P("}"), P("]"), P("}"), P("]"), P("}")>>

\* write_dummy_asn(filename, name, filedict): the association files afterwards
write_dummy_asn(disk, filename, nm, filedict) ==
    (with_suffix(filename, <<".", "json">>)
        :> AsnTemplate(nm, make_entries(filedict))) @@ disk

\* Reading an association file back, as the pipeline's JSON loader does.
IndexFrom(toks, from, tok) ==
    CHOOSE i \in from..Len(toks) :
        toks[i] = tok /\ \A j \in from..(i - 1) : toks[j] # tok

\* the items of one JSON object: "key": "value", ...
RECURSIVE ParsePairs(_)
ParsePairs(toks) ==
    IF Len(toks) < 3 THEN <<>>
    ELSE <<<<toks[1].v, toks[3].v>>>> \o ParsePairs(SubSeq(toks, 5, Len(toks)))

\* the objects of a JSON array of flat objects: {...}, {...}
RECURSIVE ParseObjects(_)
ParseObjects(toks) ==
    IF toks = <<>> THEN <<>>
    ELSE IF Head(toks) # P("{") THEN ParseObjects(Tail(toks))
    ELSE LET close == IndexFrom(toks, 1, P("}"))
         IN <<ParsePairs(SubSeq(toks, 2, close - 1))>>
            \o ParseObjects(SubSeq(toks, close + 1, Len(toks)))

\* the value of a top-level or product-level string key
JsonValue(text, key) == text[IndexFrom(text, 1, S(<<key>>)) + 2].v

\* products[0]["members"]: a list of dicts
ParseMembers(text) ==
    LET m == IndexFrom(text, 1, S(<<"members">>))
        close == IndexFrom(text, m + 3, P("]"))
    IN ParseObjects(SubSeq(text, m + 3, close - 1))

\* --------------------------------------------------- the Level 3 sections
\* files = sorted(bgsub_path.glob("jw*calints_bgsub.fits")), and
\* obsnum_files = {f.name: f.name[7:10] for f in files}
ObsnumFilesCell ==
    /\ pc = "obsnum_files"
    /\ LET fls == sorted(glob(fs, bgsub_path, <<"j", "w">>,
                              <<"calints", "_bgsub", ".", "fits">>))
       IN obsnum_files' = DictOf([i \in 1..Len(fls) |-> <<fls[i], ObsnumOf(fls[i])>>])
    /\ sect' = 1
    /\ pc' = "select"
    /\ UNCHANGED <<fs, json_fs, data_files, obsnum_filenames, bgnd_files,
                   bgnd_imgs, bgnd_i, bgnd_img, nflat, bgnd_img_mapper,
                   bgnd_sub_imgs, sci, ref, files, cor3_calls>>
    /\ UNCHANGED <<ersvars, demovars>>

\* the literals of the sections 1065, 1140 and 1550
sci_obsnums == << << <<"0", "1", "9">>, <<"0", "2", "0">> >>,
                  << <<"0", "2", "2">>, <<"0", "2", "3">> >>,
                  << <<"0", "2", "5">>, <<"0", "2", "6">> >> >>

ref_obsnum == << <<"0", "2", "1">>, <<"0", "2", "4">>, <<"0", "2", "7">> >>

asn_file == << PathJoin(output_parent, <<"stage3_asn_hd141569a_1065", ".", "json">>),
               PathJoin(output_parent, <<"stage3_asn_hd141569a_1140", ".", "json">>),
               PathJoin(output_parent, <<"stage3_asn_hd141569a_1550", ".", "json">>) >>

asn_name == << <<"01386_hd141569a_1065">>, <<"01386_hd141569a_1140">>,
               <<"01386_hd141569a_1550">> >>

\* the dict comprehension of sci and ref: the items of d that satisfy Keep
Where(d, Keep(_)) == SelectSeq(d, LAMBDA item : Keep(item[2]))

IsSci(k, obsnum) == obsnum \in Range(sci_obsnums[k])

IsRef(k, obsnum) == obsnum = ref_obsnum[k]

SelectCell ==
    /\ pc = "select"
    /\ sci' = Where(obsnum_files, LAMBDA obsnum : IsSci(sect, obsnum))
    /\ ref' = Where(obsnum_files, LAMBDA obsnum : IsRef(sect, obsnum))
    /\ pc' = "asn"
    /\ UNCHANGED <<fs, json_fs, data_files, obsnum_filenames, bgnd_files,
                   bgnd_imgs, bgnd_i, bgnd_img, nflat, bgnd_img_mapper,
                   bgnd_sub_imgs, obsnum_files, sect, files, cor3_calls>>
    /\ UNCHANGED <<ersvars, demovars>>

\* files[str(bgsub_path.absolute() / f)] = role, for the keys of d in order
RECURSIVE AddFiles(_, _, _)
AddFiles(acc, ks, role) ==
    IF ks = <<>> THEN acc
    ELSE AddFiles(Put(acc, PathJoin(bgsub_path, Head(ks)), role), Tail(ks), role)

\* files = {}; the science files, then the reference files
FilesOf(scid, refd) ==
    AddFiles(AddFiles(<<>>, Keys(scid), <<"science">>), Keys(refd), <<"psf">>)

AsnCell ==
    /\ pc = "asn"
    /\ files' = FilesOf(sci, ref)
    /\ json_fs' = write_dummy_asn(json_fs, asn_file[sect], asn_name[sect], files')
    /\ pc' = "coron3"
    /\ UNCHANGED <<fs, data_files, obsnum_filenames, bgnd_files, bgnd_imgs,
                   bgnd_i, bgnd_img, nflat, bgnd_img_mapper, bgnd_sub_imgs,
                   obsnum_files, sect, sci, ref, cor3_calls>>
    /\ UNCHANGED <<ersvars, demovars>>

\* cor3 = Coron3Pipeline.call(str(asn_file), **params): the pipeline reads the
\* association file and its members
Coron3Cell ==
    /\ pc = "coron3"
    /\ cor3_calls' = Append(cor3_calls,
                            [asn |-> asn_file[sect],
                             members |-> ParseMembers(json_fs[asn_file[sect]]),
                             output_dir |-> pipeline_output,
                             truncate |-> 5])
    /\ IF sect < Len(asn_file)
       THEN sect' = sect + 1 /\ pc' = "select"
       ELSE sect' = sect /\ pc' = "done"
    /\ UNCHANGED <<fs, json_fs, data_files, obsnum_filenames, bgnd_files,
                   bgnd_imgs, bgnd_i, bgnd_img, nflat, bgnd_img_mapper,
                   bgnd_sub_imgs, obsnum_files, sci, ref, files>>
    /\ UNCHANGED <<ersvars, demovars>>

vars == <<hdvars, ersvars, demovars>>

Init == InitHD

Next ==
    \/ LoadCell
    \/ BgndFilesCell
    \/ BgndCombine
    \/ BgndStackRaises
    \/ BgndFlatten
    \/ BgndStore
    \/ MatchCell
    \/ SubtractCell
    \/ WriteCell
    \/ ObsnumFilesCell
    \/ SelectCell
    \/ AsnCell
    \/ Coron3Cell

Spec == Init /\ [][Next]_vars

\* Runs over folders without target files, whose first background observation
\* has 0..MaxExp exposures of 2..MaxDim axes. The interpreter does not stop in
\* the middle of the bgnd_imgs cell: a pass of the while loop, and the exit
\* from it, are taken when they can be.
InitLive ==
    InitWith({DataFolder(bgnd_obsnums[1], d, ps, 0) :
                d \in 2..MaxDim, ps \in ParamSeqs})

\* a pass of the while loop: the steps of BgndFlatten, and no other step of
\* Next, are such steps
FlattenPass == pc = "bgnd_while" /\ NotYet2D(bgnd_img) /\ nflat' = nflat + 1

SpecLive ==
    InitLive /\ [][Next]_vars /\ WF_nflat(FlattenPass) /\ WF_vars(BgndStore)

\* =====================================================================
\* The ERS-01386 Stage 3 notebook: download, copy, organize, subtract, run
\* =====================================================================
\* out_dir = "./data-bkp"
out_dir == "./data-bkp"

\* the directory of the notebook: the "." of '!cp ./data-bkp/* .' and of
\* asn_filename
notebook_dir == "."

\* asn_filename = "./jw01386-c1021_20230717t003100_coron3_00001_asn.json"
asn_filename ==
    PathJoin(notebook_dir, <<"jw01386-c1021_20230717t003100_coron3_00001_asn", ".", "json">>)

\* params['output_dir'] = './pipeline_output/1140'
ers_output_dir == "./pipeline_output/1140"

\* ------------------------------------------------- the products at MAST
\* the occulted science exposure (Obs 4), its target acquisition exposure,
\* the reference exposure (Obs 6) and the background exposures (Obs 28, 29)
SciExposure == ExposureName(<<"0", "0", "4">>, 1, "calints")

TacqExposure == ExposureName(<<"0", "0", "4">>, 2, "calints")

RefExposure == ExposureName(<<"0", "0", "6">>, 1, "calints")

SciBgndExposure == ExposureName(<<"0", "2", "8">>, 1, "calints")

RefBgndExposure == ExposureName(<<"0", "2", "9">>, 1, "calints")

AsnTable == name(asn_filename)

AsnPool == <<"jw01386_20230717t003100_pool", ".", "csv">>

\* products: the cal files, then the asn files, then the pool files, one per
\* row of the level 3 products (two rows name the same pool)
products ==
    <<SciExposure, TacqExposure, RefExposure, SciBgndExposure, RefBgndExposure,
      AsnTable, AsnPool, AsnPool>>

\* a calints file of the program: the primary header is a dict of keywords
ErsFits(nm, observtn, exp_type, sci_data) ==
    [h \in 1..Len(HDUNames) |->
        [hdr |-> IF h = 1
                 THEN << <<"FILENAME", nm>>, <<"OBSERVTN", observtn>>,
                         <<"EXP_TYPE", exp_type>>, <<"SUBARRAY", "MASK1140">> >>
                 ELSE << <<"EXTNAME", HDUNames[h]>> >>,
         data |-> IF h = 2 THEN sci_data ELSE NDArray(<<0>>, <<>>)]]

\* The files of the products: Body(p, FALSE) is the body MAST responds with,
\* Body(p, TRUE) the file of an earlier processing of the same exposure.
Body(p, old) ==
    LET v == IF old THEN 50 ELSE 0
    IN IF p = SciExposure
         THEN ErsFits(p, <<"0", "0", "4">>, "MIR_4QPM", Ramp(Shape(3), v + 20, FALSE))
       ELSE IF p = TacqExposure
         THEN ErsFits(p, <<"0", "0", "4">>, "MIR_TACQ", Ramp(Shape(3), v + 30, FALSE))
       ELSE IF p = RefExposure
         THEN ErsFits(p, <<"0", "0", "6">>, "MIR_4QPM", Ramp(Shape(3), v + 40, TRUE))
       ELSE IF p = SciBgndExposure
         THEN ErsFits(p, <<"0", "2", "8">>, "MIR_4QPM", Ramp(Shape(3), v + 1, FALSE))
       ELSE IF p = RefBgndExposure
         THEN ErsFits(p, <<"0", "2", "9">>, "MIR_4QPM", Ramp(Shape(3), v + 3, FALSE))
       ELSE IF p = AsnTable
         THEN << <<SciExposure, "science">>, <<RefExposure, "psf">> >>
       ELSE <<"pool", old>>

\* a file that was opened for writing and closed with nothing written
EmptyFile == <<>>

\* The runs start with any of the products already in out_dir, all from the
\* present or all from an earlier processing, and with no request, one
\* request or every request failing.
FailedSets == {{}} \cup {{p} : p \in Range(products)} \cup {Range(products)}

InitERS ==
    /\ pc = "idle"
    /\ fs = <<>>
    /\ json_fs = <<>>
    /\ data_files = <<>>
    /\ obsnum_filenames = <<>>
    /\ bgnd_files = <<>>
    /\ bgnd_imgs = <<>>
    /\ bgnd_i = 0
    /\ bgnd_img = NDArray(<<0>>, <<>>)
    /\ nflat = 0
    /\ bgnd_img_mapper = <<>>
    /\ bgnd_sub_imgs = <<>>
    /\ obsnum_files = <<>>
    /\ sect = 0
    /\ sci = <<>>
    /\ ref = <<>>
    /\ files = <<>>
    /\ cor3_calls = <<>>
    /\ epc = "out_dir"
    /\ failed \in FailedSets
    /\ \E have \in SUBSET Range(products), old \in BOOLEAN :
          /\ ers_fs = [q \in {PathJoin(out_dir, p) : p \in have} |-> Body(name(q), old)]
          /\ dir_exists \in (IF have = {} THEN BOOLEAN ELSE {TRUE})
    /\ dir_writable \in (IF dir_exists THEN BOOLEAN ELSE {FALSE})
    /\ fs0 = ers_fs
    /\ nvisited = 0
    /\ opened = {}
    /\ existed = {}
    /\ after_loop = <<>>
    /\ ers_data_files = <<>>
    /\ hdr_df = <<>>
    /\ sci_targ_files = <<>>
    /\ sci_bgnd_file = <<>>
    /\ ref_targ_files = <<>>
    /\ ref_bgnd_file = <<>>
    /\ ers_cor3 = <<>>
    /\ guards_on = {}
    /\ DemoIdle

\* ------------------------------------------------ the output directory
\* (mutant) the cell without its elif branch: it goes on whatever the access
OutDirCellNoAccessTest ==
    /\ epc = "out_dir"
    /\ dir_exists' = TRUE
    /\ dir_writable' = (~dir_exists \/ dir_writable)
    /\ epc' = "download"
    /\ UNCHANGED <<failed, ers_fs, nvisited, opened, existed, fs0, after_loop,
                   ers_data_files, hdr_df, sci_targ_files, sci_bgnd_file,
                   ref_targ_files, ref_bgnd_file, ers_cor3>>
    /\ UNCHANGED guards_on
    /\ UNCHANGED <<hdvars, demovars>>

\* if not os.path.exists(out_dir): os.makedirs(out_dir)
\* (and nothing to do when it exists and can be written to)
OutDirCell ==
    /\ epc = "out_dir"
    /\ ~dir_exists \/ dir_writable
    /\ dir_exists' = TRUE
    /\ dir_writable' = TRUE
    /\ epc' = "download"
    /\ UNCHANGED <<failed, ers_fs, nvisited, opened, existed, fs0, after_loop,
                   ers_data_files, hdr_df, sci_targ_files, sci_bgnd_file,
                   ref_targ_files, ref_bgnd_file, ers_cor3>>
    /\ UNCHANGED guards_on
    /\ UNCHANGED <<hdvars, demovars>>

\* elif not os.access(out_dir, os.W_OK): raise ValueError
OutDirRaises ==
    /\ epc = "out_dir"
    /\ dir_exists /\ ~dir_writable
    /\ epc' = "error"
    /\ UNCHANGED <<dir_exists, dir_writable, failed, ers_fs, nvisited, opened,
                   existed, fs0, after_loop, ers_data_files, hdr_df,
                   sci_targ_files, sci_bgnd_file, ref_targ_files,
                   ref_bgnd_file, ers_cor3>>
    /\ UNCHANGED guards_on
    /\ UNCHANGED <<hdvars, demovars>>

\* ------------------------------------------------------ the download loop
\* (mutant) the loop without its condition on existing files
isfile_never(disk, path) == FALSE

\* os.path.isfile(outfile)
isfile(disk, path) == path \in DOMAIN disk

\* outfile = os.path.join(out_dir, p)
outfile(p) == PathJoin(out_dir, p)

\* the product the loop is at
NextProduct == products[nvisited + 1]

\* r.raise_for_status() raises: print, and continue
DownloadFailed ==
    /\ epc = "download"
    /\ nvisited < Len(products)
    /\ NextProduct \in failed
    /\ nvisited' = nvisited + 1
    /\ existed' = IF outfile(NextProduct) \in DOMAIN ers_fs
                  THEN existed \cup {NextProduct} ELSE existed
    /\ UNCHANGED <<epc, dir_exists, dir_writable, failed, ers_fs, opened, fs0,
                   after_loop, ers_data_files, hdr_df, sci_targ_files,
                   sci_bgnd_file, ref_targ_files, ref_bgnd_file, ers_cor3>>
    /\ UNCHANGED guards_on
    /\ UNCHANGED <<hdvars, demovars>>

\* if os.path.isfile(outfile): print, and continue
DownloadSkip ==
    /\ epc = "download"
    /\ nvisited < Len(products)
    /\ NextProduct \notin failed
    /\ isfile(ers_fs, outfile(NextProduct))
    /\ nvisited' = nvisited + 1
    /\ existed' = IF outfile(NextProduct) \in DOMAIN ers_fs
                  THEN existed \cup {NextProduct} ELSE existed
    /\ UNCHANGED <<epc, dir_exists, dir_writable, failed, ers_fs, opened, fs0,
                   after_loop, ers_data_files, hdr_df, sci_targ_files,
                   sci_bgnd_file, ref_targ_files, ref_bgnd_file, ers_cor3>>
    /\ UNCHANGED guards_on
    /\ UNCHANGED <<hdvars, demovars>>

\* else: with open(outfile, 'wb') as fd:
\*           for data in r.iter_content(chunk_size=block_size):
\* open creates the file, or empties it; the cell assigned block_dataze and
\* no cell assigns block_size, so that evaluating the argument of
\* iter_content raises NameError: the file is closed with nothing written
\* and the cell ends
DownloadRaises ==
    /\ epc = "download"
    /\ nvisited < Len(products)
    /\ NextProduct \notin failed
    /\ ~isfile(ers_fs, outfile(NextProduct))
    /\ nvisited' = nvisited + 1
    /\ existed' = IF outfile(NextProduct) \in DOMAIN ers_fs
                  THEN existed \cup {NextProduct} ELSE existed
    /\ opened' = opened \cup {outfile(NextProduct)}
    /\ ers_fs' = [q \in DOMAIN ers_fs \cup {outfile(NextProduct)} |->
                     IF q = outfile(NextProduct) THEN EmptyFile ELSE ers_fs[q]]
    /\ after_loop' = <<ers_fs'>>
    /\ epc' = "error"
    /\ UNCHANGED <<dir_exists, dir_writable, failed, fs0, ers_data_files,
                   hdr_df, sci_targ_files, sci_bgnd_file, ref_targ_files,
                   ref_bgnd_file, ers_cor3>>
    /\ UNCHANGED guards_on
    /\ UNCHANGED <<hdvars, demovars>>

\* the loop is over
DownloadDone ==
    /\ epc = "download"
    /\ nvisited = Len(products)
    /\ after_loop' = <<ers_fs>>
    /\ epc' = "copy"
    /\ UNCHANGED <<dir_exists, dir_writable, failed, ers_fs, nvisited, opened,
                   existed, fs0, ers_data_files, hdr_df, sci_targ_files,
                   sci_bgnd_file, ref_targ_files, ref_bgnd_file, ers_cor3>>
    /\ UNCHANGED guards_on
    /\ UNCHANGED <<hdvars, demovars>>

\* ------------------------------------------- copy to the working folder
\* cp ./data-bkp/* . : every file of out_dir under its name in the notebook's
\* directory (cp fails, and changes nothing, when there is none)
cp(disk, src, dst) ==
    LET copies == {PathJoin(dst, name(q)) : q \in {r \in DOMAIN disk : parent(r) = <<src>>}}
    IN [q \in DOMAIN disk \cup copies |->
           IF q \in copies THEN disk[PathJoin(src, name(q))] ELSE disk[q]]

CopyCell ==
    /\ epc = "copy"
    /\ ers_fs' = cp(ers_fs, out_dir, notebook_dir)
    /\ epc' = "data_files"
    /\ UNCHANGED <<dir_exists, dir_writable, failed, nvisited, opened, existed,
                   fs0, after_loop, ers_data_files, hdr_df, sci_targ_files,
                   sci_bgnd_file, ref_targ_files, ref_bgnd_file, ers_cor3>>
    /\ UNCHANGED guards_on
    /\ UNCHANGED <<hdvars, demovars>>

\* --------------------------------------------------- organize the files
\* data_files = sorted(Path(out_dir).glob("*fits"))
DataFilesCell ==
    /\ epc = "data_files"
    /\ ers_data_files' = sorted(glob(ers_fs, out_dir, <<>>, <<"fits">>))
    /\ epc' = "organize"
    /\ UNCHANGED <<dir_exists, dir_writable, failed, ers_fs, nvisited, opened,
                   existed, fs0, after_loop, hdr_df, sci_targ_files,
                   sci_bgnd_file, ref_targ_files, ref_bgnd_file, ers_cor3>>
    /\ UNCHANGED guards_on
    /\ UNCHANGED <<hdvars, demovars>>

\* astropy.io.fits.getheader(path, ext)
getheader(disk, path, ext) == disk[path][ext + 1].hdr

\* organize_files_by_hdr: the primary header of every file of data_files
organize_files_by_hdr(disk) ==
    [j \in 1..Len(ers_data_files) |->
        getheader(disk, PathJoin(out_dir, ers_data_files[j]), 0)]

OrganizeCell ==
    /\ epc = "organize"
    /\ ers_data_files # <<>>
    /\ hdr_df' = organize_files_by_hdr(ers_fs)
    /\ epc' = "sci_select"
    /\ UNCHANGED <<dir_exists, dir_writable, failed, ers_fs, nvisited, opened,
                   existed, fs0, after_loop, ers_data_files, sci_targ_files,
                   sci_bgnd_file, ref_targ_files, ref_bgnd_file, ers_cor3>>
    /\ UNCHANGED guards_on
    /\ UNCHANGED <<hdvars, demovars>>

\* pd.concat of an empty list raises ValueError
OrganizeRaises ==
    /\ epc = "organize"
    /\ ers_data_files = <<>>
    /\ epc' = "error"
    /\ UNCHANGED <<dir_exists, dir_writable, failed, ers_fs, nvisited, opened,
                   existed, fs0, after_loop, ers_data_files, hdr_df,
                   sci_targ_files, sci_bgnd_file, ref_targ_files,
                   ref_bgnd_file, ers_cor3>>
    /\ UNCHANGED guards_on
    /\ UNCHANGED <<hdvars, demovars>>

\* hdr_df.query("OBSERVTN in obsnums and EXP_TYPE == 'MIR_4QPM'")
QueryTarg(df, obsnums) ==
    SelectSeq(df, LAMBDA row : /\ Get(row, "OBSERVTN") \in obsnums
                               /\ Get(row, "EXP_TYPE") = "MIR_4QPM")

\* hdr_df.query("OBSERVTN == obsnum")
QueryObs(df, obsnum) == SelectSeq(df, LAMBDA row : Get(row, "OBSERVTN") = obsnum)

\* sci_targ_files and sci_bgnd_file of the 1140 data
SciSelectCell ==
    /\ epc = "sci_select"
    /\ sci_targ_files' = QueryTarg(hdr_df, {<<"0", "0", "4">>, <<"0", "0", "5">>})
    /\ sci_bgnd_file' = QueryObs(hdr_df, <<"0", "2", "8">>)
    /\ epc' = "ref_select"
    /\ UNCHANGED <<dir_exists, dir_writable, failed, ers_fs, nvisited, opened,
                   existed, fs0, after_loop, ers_data_files, hdr_df,
                   ref_targ_files, ref_bgnd_file, ers_cor3>>
    /\ UNCHANGED guards_on
    /\ UNCHANGED <<hdvars, demovars>>

\* ref_bgnd_file and ref_targ_files of the 1140 data
RefSelectCell ==
    /\ epc = "ref_select"
    /\ ref_bgnd_file' = QueryObs(hdr_df, <<"0", "2", "9">>)
    /\ ref_targ_files' = QueryTarg(hdr_df, {<<"0", "0", "6">>})
    /\ epc' = "sci_bgsub"
    /\ UNCHANGED <<dir_exists, dir_writable, failed, ers_fs, nvisited, opened,
                   existed, fs0, after_loop, ers_data_files, hdr_df,
                   sci_targ_files, sci_bgnd_file, ers_cor3>>
    /\ UNCHANGED guards_on
    /\ UNCHANGED <<hdvars, demovars>>

\* ---------------------------------------------- background subtraction
\* for f in targ['FILENAME']:
\*     with fits.open(Path(out_dir) / f) as hdulist:
\*         hdulist[1].data = hdulist[1].data - bgnd_img
\*         hdulist.writeto(str(Path(out_dir) / f), overwrite=True)
RECURSIVE SubtractAndWrite(_, _, _)
SubtractAndWrite(disk, targ, bgnd_image) ==
    IF targ = <<>> THEN disk
    ELSE LET f == PathJoin(out_dir, Get(Head(targ), "FILENAME"))
             hdulist == [disk[f] EXCEPT ![2].data = BroadcastSub(@, bgnd_image)]
         IN SubtractAndWrite([disk EXCEPT ![f] = hdulist], Tail(targ), bgnd_image)

\* The body of a background subtraction cell:
\* bgnd_img = fits.getdata(Path(out_dir) / bgnd['FILENAME'].iloc[0], 1), and
\* the loop. The result is <<whether iloc[0] raised IndexError, the files>>.
BgSub(disk, targ, bgnd) ==
    IF bgnd = <<>> THEN <<TRUE, disk>>
    ELSE <<FALSE,
           SubtractAndWrite(disk, targ,
                getdata(disk, PathJoin(out_dir, Get(bgnd[1], "FILENAME")), 1))>>

\* The science background subtraction cell, as it is written ('if False:') or
\* with the guard switched to True as the notebook tells its reader to.
SciBgSubCell ==
    /\ epc = "sci_bgsub"
    /\ \E guard \in BOOLEAN :
          IF ~guard
          THEN ers_fs' = ers_fs /\ epc' = "ref_bgsub" /\ guards_on' = guards_on
          ELSE /\ ers_fs' = BgSub(ers_fs, sci_targ_files, sci_bgnd_file)[2]
               /\ epc' = IF BgSub(ers_fs, sci_targ_files, sci_bgnd_file)[1]
                         THEN "error" ELSE "ref_bgsub"
               /\ guards_on' = guards_on \cup {"sci_bgsub"}
    /\ UNCHANGED <<dir_exists, dir_writable, failed, nvisited, opened, existed,
                   fs0, after_loop, ers_data_files, hdr_df, sci_targ_files,
                   sci_bgnd_file, ref_targ_files, ref_bgnd_file, ers_cor3>>
    /\ UNCHANGED <<hdvars, demovars>>

\* The reference background subtraction cell, likewise.
RefBgSubCell ==
    /\ epc = "ref_bgsub"
    /\ \E guard \in BOOLEAN :
          IF ~guard
          THEN ers_fs' = ers_fs /\ epc' = "coron3" /\ guards_on' = guards_on
          ELSE /\ ers_fs' = BgSub(ers_fs, ref_targ_files, ref_bgnd_file)[2]
               /\ epc' = IF BgSub(ers_fs, ref_targ_files, ref_bgnd_file)[1]
                         THEN "error" ELSE "coron3"
               /\ guards_on' = guards_on \cup {"ref_bgsub"}
    /\ UNCHANGED <<dir_exists, dir_writable, failed, nvisited, opened, existed,
                   fs0, after_loop, ers_data_files, hdr_df, sci_targ_files,
                   sci_bgnd_file, ref_targ_files, ref_bgnd_file, ers_cor3>>
    /\ UNCHANGED <<hdvars, demovars>>

\* ------------------------------------------------------------- Stage 3
\* the exposures an association file names are looked for in its directory
MemberPath(asn, expname) == PathJoin(parent(asn)[1], expname)

\* whether the pipeline can read the association file and all its members
Readable(disk, asn) ==
    /\ asn \in DOMAIN disk
    /\ \A j \in 1..Len(disk[asn]) : MemberPath(asn, disk[asn][j][1]) \in DOMAIN disk

\* cor3 = Coron3Pipeline().call(asn_filename, **params): the pipeline reads
\* the association file and the exposures it names
Coron3ErsCell ==
    /\ epc = "coron3"
    /\ Readable(ers_fs, asn_filename)
    /\ ers_cor3' = Append(ers_cor3,
                          [asn |-> asn_filename,
                           output_dir |-> ers_output_dir,
                           members |-> ers_fs[asn_filename],
                           inputs |-> [j \in 1..Len(ers_fs[asn_filename]) |->
                                          ers_fs[MemberPath(asn_filename,
                                                            ers_fs[asn_filename][j][1])]]])
    /\ epc' = "done"
    /\ UNCHANGED <<dir_exists, dir_writable, failed, ers_fs, nvisited, opened,
                   existed, fs0, after_loop, ers_data_files, hdr_df,
                   sci_targ_files, sci_bgnd_file, ref_targ_files,
                   ref_bgnd_file>>
    /\ UNCHANGED guards_on
    /\ UNCHANGED <<hdvars, demovars>>

\* the pipeline raises when a file it is to read is not there
Coron3ErsRaises ==
    /\ epc = "coron3"
    /\ ~Readable(ers_fs, asn_filename)
    /\ epc' = "error"
    /\ UNCHANGED <<dir_exists, dir_writable, failed, ers_fs, nvisited, opened,
                   existed, fs0, after_loop, ers_data_files, hdr_df,
                   sci_targ_files, sci_bgnd_file, ref_targ_files,
                   ref_bgnd_file, ers_cor3>>
    /\ UNCHANGED guards_on
    /\ UNCHANGED <<hdvars, demovars>>

NextERS ==
    \/ OutDirCell
    \/ OutDirRaises
    \/ DownloadFailed
    \/ DownloadSkip
    \/ DownloadRaises
    \/ DownloadDone
    \/ CopyCell
    \/ DataFilesCell
    \/ OrganizeCell
    \/ OrganizeRaises
    \/ SciSelectCell
    \/ RefSelectCell
    \/ SciBgSubCell
    \/ RefBgSubCell
    \/ Coron3ErsCell
    \/ Coron3ErsRaises

SpecERS == InitERS /\ [][NextERS]_vars

\* =====================================================================
\* The pipeline_demos notebooks: calwebb_coron3 and full_pipeline
\* =====================================================================
\* The two notebooks run in the directory pipeline_demos/. A path is the
\* sequence of its components and separators; a FITS file is kept as its
\* primary header, an association file as the association it was dumped from.

\* pathlib: p / q
Div(p, q) == p \o <<"/">> \o q

\* the directory the notebooks are run in
cwd == <<"<cwd>">>

\* pathlib: Path.resolve() of a relative path, and the file an absolute path
\* names
resolve(p) == Div(cwd, p)

FsPath(p) == IF StartsWith(p, cwd \o <<"/">>) THEN SubSeq(p, Len(cwd) + 2, Len(p)) ELSE p

\* whether path p lies in folder dir or below it
IsUnder(p, dir) == StartsWith(p, dir \o <<"/">>)

\* jw01386<obs>001_0<act>101_0000<e>_mirimage_<kind>.fits
DemoName(obs, act, e, kind) ==
    <<"j", "w", "0", "1", "3", "8", "6">> \o obs
    \o <<"001_0", Digits[act + 1], "101_0000", Digits[e + 1], "_mirimage_",
         kind, ".", "fits">>

\* the name without its product suffix: jw01386<obs>001_0<act>101_0000<e>_mirimage_
BaseName(nm) == SubSeq(nm, 1, Len(nm) - 3)

\* int() of a string of digits
RECURSIVE int(_)
int(ds) == IF ds = <<>> THEN 0 ELSE 10 * int(SubSeq(ds, 1, Len(ds) - 1)) + DigitVal(ds[Len(ds)])

\* the order of sorted() on paths of one folder whose names have the format
\* of DemoName and one product suffix
DemoSortKey(p) ==
    LET nm == name(p)
    IN 100 * int(SubSeq(nm, 8, 10)) + 10 * DigitVal(nm[12]) + DigitVal(nm[14])

sorted_paths(paths) ==
    LET all == SetToSeq(paths)
    IN SortSeq(all, LAMBDA a, b : DemoSortKey(a) < DemoSortKey(b))

\* sorted(dir.glob("*" + post)): the files of folder dir whose name ends with
\* post
sorted_glob(disk, dir, post) ==
    sorted_paths({q \in DOMAIN disk : parent(q) = dir /\ EndsWith(name(q), post)})

\* a FITS file of an exposure: its primary header
DemoFits(observtn, exp_type, is_psf) ==
    [hdr |-> << <<"OBSERVTN", observtn>>, <<"EXP_TYPE", exp_type>>,
                <<"IS_PSF", is_psf>> >>]

\* astropy.io.fits.getval(f, key, 0)
getval(disk, f, key) == Get(disk[FsPath(f)].hdr, key)

\* -------------------------------- sorting the Stage 2 products (both notebooks)
\* (mutant) the two branches exchanged
RECURSIVE SortByIsPsfSwapped(_, _, _)
SortByIsPsfSwapped(disk, fnames, acc) ==
    IF fnames = <<>> THEN acc
    ELSE LET f == Head(fnames)
             is_psf == getval(disk, f, "IS_PSF")
             key == IF is_psf = TRUE THEN "sci" ELSE "psf"
         IN SortByIsPsfSwapped(disk, Tail(fnames),
                               Put(acc, key, Append(Get(acc, key), resolve(f))))

\* for f in filenames:
\*     is_psf = fits.getval(f, 'IS_PSF', 0)
\*     if is_psf == True: files['psf'].append(str(f.resolve()))
\*     else:              files['sci'].append(str(f.resolve()))
RECURSIVE SortByIsPsf(_, _, _)
SortByIsPsf(disk, fnames, acc) ==
    IF fnames = <<>> THEN acc
    ELSE LET f == Head(fnames)
             is_psf == getval(disk, f, "IS_PSF")
             key == IF is_psf = TRUE THEN "psf" ELSE "sci"
         IN SortByIsPsf(disk, Tail(fnames),
                        Put(acc, key, Append(Get(acc, key), resolve(f))))

\* files = {'sci': [], 'psf': []}
EmptyFiles3 == << <<"sci", <<>> >>, <<"psf", <<>> >> >>

\* ------------------------------------------------ the Stage 3 association
\* asn_from_list.asn_from_list(items, rule=DMS_Level3_Base, product_name=pn):
\* one product named pn whose members are the items, each of exptype science
asn_from_list_level3(items, product_name) ==
    [asn_rule |-> "DMS_Level3_Base",
     products |-> << [name |-> product_name,
                      members |-> [i \in 1..Len(items) |->
                                      [expname |-> items[i], exptype |-> "science"]]] >>]

\* for f in files['psf']:
\*     asn['products'][0]['members'].append({'expname': str(f), 'exptype': 'psf'})
RECURSIVE AppendPsf(_, _)
AppendPsf(asn, psf) ==
    IF psf = <<>> THEN asn
    ELSE AppendPsf([asn EXCEPT !.products[1].members =
                        Append(@, [expname |-> Head(psf), exptype |-> "psf"])],
                   Tail(psf))

\* the cell that builds the Stage 3 association of files
Coron3Asn(fls) ==
    AppendPsf(asn_from_list_level3(Get(fls, "sci"), "test"), Get(fls, "psf"))

\* fp.write(asn.dump()[1]): the file holds the serialized association
dump(asn) == [json |-> asn]

\* the association a pipeline loads from an association file
load(content) == content.json

\* the variables of each notebook alone
c3vars == <<c3pc, c3_filenames, c3_files, c3_asn>>

fpvars == <<fpc, fp_i, det1_files, fp_files, asn_sci, asn_psf, img2_files,
            fp_files3, fp_asn>>

\* the HD141569A notebook is not being run
HdIdle ==
    /\ pc = "idle"
    /\ fs = <<>>
    /\ json_fs = <<>>
    /\ data_files = <<>>
    /\ obsnum_filenames = <<>>
    /\ bgnd_files = <<>>
    /\ bgnd_imgs = <<>>
    /\ bgnd_i = 0
    /\ bgnd_img = NDArray(<<0>>, <<>>)
    /\ nflat = 0
    /\ bgnd_img_mapper = <<>>
    /\ bgnd_sub_imgs = <<>>
    /\ obsnum_files = <<>>
    /\ sect = 0
    /\ sci = <<>>
    /\ ref = <<>>
    /\ files = <<>>
    /\ cor3_calls = <<>>

\* ------------------------------------------- the calwebb_coron3 notebook
\* Path("stage2/output-asn_all/")
stage2_asn_all == <<"stage2", "/", "output-asn_all">>

\* the folder the README gives the notebook for its output
stage3_output == <<"stage3", "/", "output">>

\* 'stage3/coron3_asn.json'
c3_asn_path == <<"stage3", "/", "coron3_asn", ".", "json">>

\* The Stage 2 products the notebook may find: the two rolls of the science
\* target and NDither dithers of the PSF reference star, and a product of
\* another kind.
C3Candidates ==
    {DemoName(<<"0", "0", "8">>, 4, 1, "calints"),
     DemoName(<<"0", "0", "9">>, 4, 1, "calints")}
    \cup {DemoName(<<"0", "0", "7">>, 4, e, "calints") : e \in 1..NDither}

OtherProduct == DemoName(<<"0", "0", "8">>, 4, 1, "bsubints")

\* The notebook starts on any of the candidates, each with IS_PSF true or
\* false in its header.
InitC3 ==
    /\ HdIdle
    /\ ErsIdle
    /\ c3pc = "filenames"
    /\ fpc = "idle"
    /\ \E have \in SUBSET C3Candidates, other \in BOOLEAN :
          \E is_psf \in [have -> BOOLEAN] :
             demo_fs = [q \in {Div(stage2_asn_all, nm) : nm \in have}
                              \cup (IF other THEN {Div(stage2_asn_all, OtherProduct)} ELSE {})
                        |-> DemoFits(SubSeq(name(q), 8, 10), "MIR_4QPM",
                                     IF name(q) \in have THEN is_psf[name(q)] ELSE FALSE)]
    /\ c3_filenames = <<>>
    /\ c3_files = <<>>
    /\ c3_asn = <<>>
    /\ fp_i = 0
    /\ det1_files = <<>>
    /\ fp_files = <<>>
    /\ asn_sci = <<>>
    /\ asn_psf = <<>>
    /\ img2_files = <<>>
    /\ fp_files3 = <<>>
    /\ fp_asn = <<>>
    /\ calls = <<>>

\* filenames = sorted(Path("stage2/output-asn_all/").glob("*calints.fits"))
C3FilenamesCell ==
    /\ c3pc = "filenames"
    /\ c3_filenames' = sorted_glob(demo_fs, stage2_asn_all, <<"calints", ".", "fits">>)
    /\ c3pc' = "example"
    /\ UNCHANGED <<c3_files, c3_asn, demo_fs, calls, fpvars>>
    /\ UNCHANGED <<hdvars, ersvars>>

\* example_cal_file = filenames[0]: IndexError on an empty list
C3ExampleCell ==
    /\ c3pc = "example"
    /\ c3pc' = IF c3_filenames = <<>> THEN "error" ELSE "sort"
    /\ UNCHANGED <<c3_filenames, c3_files, c3_asn, demo_fs, calls, fpvars>>
    /\ UNCHANGED <<hdvars, ersvars>>

\* the cell that sorts the files into science or PSF target
C3SortCell ==
    /\ c3pc = "sort"
    /\ c3_files' = SortByIsPsf(demo_fs, c3_filenames, EmptyFiles3)
    /\ c3pc' = "asn"
    /\ UNCHANGED <<c3_filenames, c3_asn, demo_fs, calls, fpvars>>
    /\ UNCHANGED <<hdvars, ersvars>>

\* asn = asn_from_list.asn_from_list(files['sci'], ...) and the psf members
C3AsnCell ==
    /\ c3pc = "asn"
    /\ c3_asn' = Coron3Asn(c3_files)
    /\ c3pc' = "write"
    /\ UNCHANGED <<c3_filenames, c3_files, demo_fs, calls, fpvars>>
    /\ UNCHANGED <<hdvars, ersvars>>

\* with open('stage3/coron3_asn.json', 'w') as fp: fp.write(asn.dump()[1])
C3WriteCell ==
    /\ c3pc = "write"
    /\ demo_fs' = (c3_asn_path :> dump(c3_asn)) @@ demo_fs
    /\ c3pc' = "run"
    /\ UNCHANGED <<c3_filenames, c3_files, c3_asn, calls, fpvars>>
    /\ UNCHANGED <<hdvars, ersvars>>

\* The Run Coron3 cell. The items of the dict display that is assigned to
\* params, with the commas that stand between them in the cell's text:
\*     'output_dir': "./stage3/output/",
\*     'save_results': True
\*     'steps': { 'klip': {'truncate': 25}, }
params_display == <<"output_dir", ",", "save_results", "steps">>

\* Python's grammar of a dict display: items separated by commas, and a comma
\* may follow the last item
IsDictDisplay(toks) ==
    \A i \in 1..Len(toks) : (toks[i] = ",") <=> (i % 2 = 0)

\* the default of the klip step's truncate parameter
klip_truncate_default == 50

\* the dict the display denotes when it is one
c3_params ==
    [output_dir |-> <<".", "/", "stage3", "/", "output", "/">>,
     save_results |-> TRUE,
     steps |-> [klip |-> [truncate |-> 25]]]

\* params = {...}; cor3 = Coron3Pipeline().call("stage3/coron3_asn.json", **params)
\* A cell whose text is not Python raises SyntaxError before any of it runs.
C3RunCell ==
    /\ c3pc = "run"
    /\ IF IsDictDisplay(params_display)
       THEN /\ calls' = Append(calls, [pipeline |-> "Coron3Pipeline",
                                       input |-> c3_asn_path,
                                       params |-> c3_params,
                                       asn |-> load(demo_fs[c3_asn_path])])
            /\ c3pc' = "done"
       ELSE /\ calls' = calls
            /\ c3pc' = "error"
    /\ UNCHANGED <<c3_filenames, c3_files, c3_asn, demo_fs, fpvars>>
    /\ UNCHANGED <<hdvars, ersvars>>

\* --------------------------------------------- the full_pipeline notebook
\* filenames: the two rolls of the science target (Obs 8, 9), the nine
\* dithers of the PSF reference star (Obs 7), the science backgrounds
\* (Obs 30) and the PSF reference star backgrounds (Obs 31)
filenames ==
    <<DemoName(<<"0", "0", "8">>, 4, 1, "uncal"),
      DemoName(<<"0", "0", "9">>, 4, 1, "uncal")>>
    \o [e \in 1..9 |-> DemoName(<<"0", "0", "7">>, 4, e, "uncal")]
    \o <<DemoName(<<"0", "3", "0">>, 2, 1, "uncal"),
         DemoName(<<"0", "3", "0">>, 3, 1, "uncal"),
         DemoName(<<"0", "3", "1">>, 2, 1, "uncal"),
         DemoName(<<"0", "3", "1">>, 3, 1, "uncal")>>

\* output_dir = Path("full_pipeline_output"), and the folders under it
fp_output_dir == <<"full_pipeline_output">>

uncal_dir == <<"uncal">>

stage1_dir == Div(fp_output_dir, <<"stage1">>)

stage2_dir == Div(fp_output_dir, <<"stage2">>)

stage3_dir == Div(fp_output_dir, <<"stage3">>)

sci_asn_path == Div(fp_output_dir, <<"sci-coron_bkgsubtest_asn", ".", "json">>)

psf_asn_path == Div(fp_output_dir, <<"psf-coron_bkgsubtest_asn", ".", "json">>)

fp_asn_path == Div(fp_output_dir, <<"coron3_asn", ".", "json">>)

\* the uncal file MAST serves for a name of filenames: in this program the
\* PSF reference star is observation 7
UncalFile(nm) ==
    DemoFits(SubSeq(nm, 8, 10), "MIR_4QPM", SubSeq(nm, 8, 10) = <<"0", "0", "7">>)

\* Files that earlier runs may have left in the stage folders: in stage1 a
\* target acquisition exposure and an exposure of another observation, in
\* stage2 two products of other observations.
StaleStage1 ==
    [q \in {Div(stage1_dir, DemoName(<<"0", "0", "8">>, 2, 1, "rateints")),
            Div(stage1_dir, DemoName(<<"0", "0", "4">>, 4, 1, "rateints"))} |->
        IF name(q)[10] = "8"
        THEN DemoFits(<<"0", "0", "8">>, "MIR_TACQ", FALSE)
        ELSE DemoFits(<<"0", "0", "4">>, "MIR_4QPM", FALSE)]

StaleStage2 ==
    [q \in {Div(stage2_dir, DemoName(<<"0", "0", "4">>, 4, 1, "calints")),
            Div(stage2_dir, DemoName(<<"0", "0", "6">>, 4, 1, "calints"))} |->
        DemoFits(SubSeq(name(q), 8, 10), "MIR_4QPM", name(q)[10] = "6")]

\* the restriction of a function to a part of its domain
Restrict(f, dom) == [x \in dom |-> f[x]]

InitFP ==
    /\ HdIdle
    /\ ErsIdle
    /\ c3pc = "idle"
    /\ fpc = "download"
    /\ \E s1 \in SUBSET DOMAIN StaleStage1, s2 \in SUBSET DOMAIN StaleStage2 :
          demo_fs = Restrict(StaleStage1, s1) @@ Restrict(StaleStage2, s2)
    /\ c3_filenames = <<>>
    /\ c3_files = <<>>
    /\ c3_asn = <<>>
    /\ fp_i = 0
    /\ det1_files = <<>>
    /\ fp_files = <<>>
    /\ asn_sci = <<>>
    /\ asn_psf = <<>>
    /\ img2_files = <<>>
    /\ fp_files3 = <<>>
    /\ fp_asn = <<>>
    /\ calls = <<>>

\* for filename in filenames:
\*     Observations.download_file(..., local_path=f"./uncal/{filename}")
FPDownloadCell ==
    /\ fpc = "download"
    /\ demo_fs' = [q \in {Div(uncal_dir, filenames[i]) : i \in 1..Len(filenames)} |->
                      UncalFile(name(q))] @@ demo_fs
    /\ fpc' = "stage1"
    /\ UNCHANGED <<fp_i, det1_files, fp_files, asn_sci, asn_psf, img2_files,
                   fp_files3, fp_asn, calls, c3vars>>
    /\ UNCHANGED <<hdvars, ersvars>>

\* Detector1Pipeline with save_results=True writes the rateints and the rate
\* product of its input into output_dir, under the input's name
Detector1Products(disk, filename, outdir) ==
    [q \in {Div(outdir, BaseName(name(filename)) \o <<"rateints", ".", "fits">>),
            Div(outdir, BaseName(name(filename)) \o <<"rate", ".", "fits">>)} |->
        disk[filename]]

\* one pass of the Stage 1 loop:
\* filename = str(Path("uncal") / f)
\* res1 = Detector1Pipeline.call(filename, output_dir=str(output_dir / "stage1"), ...)
Detector1Call ==
    /\ fpc = "stage1"
    /\ fp_i < Len(filenames)
    /\ LET filename == Div(uncal_dir, filenames[fp_i + 1])
       IN IF filename \in DOMAIN demo_fs
          THEN /\ calls' = Append(calls, [pipeline |-> "Detector1Pipeline",
                                          input |-> filename,
                                          params |-> [output_dir |-> stage1_dir,
                                                      save_results |-> TRUE]])
               /\ demo_fs' = Detector1Products(demo_fs, filename, stage1_dir) @@ demo_fs
               /\ fp_i' = fp_i + 1
               /\ fpc' = IF fp_i + 1 = Len(filenames) THEN "det1_files" ELSE "stage1"
          ELSE /\ fpc' = "error"
               /\ UNCHANGED <<calls, demo_fs, fp_i>>
    /\ UNCHANGED <<det1_files, fp_files, asn_sci, asn_psf, img2_files,
                   fp_files3, fp_asn, c3vars>>
    /\ UNCHANGED <<hdvars, ersvars>>

\* (mutant) det1_files taken from the uncal folder
Det1FilesFromUncal(disk) ==
    SelectSeq(sorted_glob(disk, uncal_dir, <<"uncal", ".", "fits">>),
              LAMBDA f : getval(disk, f, "EXP_TYPE") # "MIR_TACQ")

\* det1_files = sorted((output_dir / "stage1").glob("*rateints.fits"))
\* and the removal of the TACQ exposures
Det1Files(disk) ==
    SelectSeq(sorted_glob(disk, stage1_dir, <<"rateints", ".", "fits">>),
              LAMBDA f : getval(disk, f, "EXP_TYPE") # "MIR_TACQ")

Det1FilesCell ==
    /\ fpc = "det1_files"
    /\ det1_files' = Det1Files(demo_fs)
    /\ fpc' = "separate"
    /\ UNCHANGED <<fp_i, fp_files, asn_sci, asn_psf, img2_files, fp_files3,
                   fp_asn, demo_fs, calls, c3vars>>
    /\ UNCHANGED <<hdvars, ersvars>>

\* files = {'sci': [], 'sci-bgnd': [], 'psf': [], 'psf-bgnd': []}
EmptyFiles2 ==
    << <<"sci", <<>> >>, <<"sci-bgnd", <<>> >>, <<"psf", <<>> >>,
       <<"psf-bgnd", <<>> >> >>

\* the branch of the if statement an observation number takes
KindOfObsnum(obsnum) ==
    IF obsnum \in {8, 9} THEN "sci"
    ELSE IF obsnum = 7 THEN "psf"
    ELSE IF obsnum = 30 THEN "sci-bgnd"
    ELSE IF obsnum = 31 THEN "psf-bgnd"
    ELSE "pass"

\* for f in det1_files:
\*     obsnum = int(fits.getval(f, 'OBSERVTN', 0))
\*     if obsnum in [8, 9]: files['sci'].append(str(f.resolve())) ...
RECURSIVE Separate(_, _, _)
Separate(disk, fnames, acc) ==
    IF fnames = <<>> THEN acc
    ELSE LET f == Head(fnames)
             key == KindOfObsnum(int(getval(disk, f, "OBSERVTN")))
         IN Separate(disk, Tail(fnames),
                     IF key = "pass" THEN acc
                     ELSE Put(acc, key, Append(Get(acc, key), resolve(f))))

SeparateCell ==
    /\ fpc = "separate"
    /\ fp_files' = Separate(demo_fs, det1_files, EmptyFiles2)
    /\ fpc' = "asn2"
    /\ UNCHANGED <<fp_i, det1_files, asn_sci, asn_psf, img2_files, fp_files3,
                   fp_asn, demo_fs, calls, c3vars>>
    /\ UNCHANGED <<hdvars, ersvars>>

\* asn_from_list.asn_from_list(items, rule=DMSLevel2bBase): one product per
\* item, named after the item, with the item as its science member
asn_from_list_level2(items) ==
    [asn_rule |-> "DMSLevel2bBase",
     products |-> [i \in 1..Len(items) |->
                     [name |-> BaseName(name(items[i])),
                      members |-> <<[expname |-> items[i], exptype |-> "science"]>>]]]

Asn2Cell ==
    /\ fpc = "asn2"
    /\ asn_sci' = asn_from_list_level2(Get(fp_files, "sci"))
    /\ asn_psf' = asn_from_list_level2(Get(fp_files, "psf"))
    /\ fpc' = "append"
    /\ UNCHANGED <<fp_i, det1_files, fp_files, img2_files, fp_files3, fp_asn,
                   demo_fs, calls, c3vars>>
    /\ UNCHANGED <<hdvars, ersvars>>

\* (mutant) the background files appended to the first product only
AddBackgroundToFirst(asn, bgnd) ==
    LET ps == asn.products
        bg == [j \in 1..Len(bgnd) |-> [expname |-> bgnd[j], exptype |-> "background"]]
    IN [asn EXCEPT !.products =
           [i \in 1..Len(ps) |->
               IF i > 1 THEN ps[i]
               ELSE [ps[i] EXCEPT !.members = ps[i].members \o bg]]]

\* for product in asn['products']:
\*     for f in bgnd:
\*         product['members'].append({'expname': f, 'exptype': 'background'})
AddBackground(asn, bgnd) ==
    LET ps == asn.products
        bg == [j \in 1..Len(bgnd) |-> [expname |-> bgnd[j], exptype |-> "background"]]
    IN [asn EXCEPT !.products =
           [i \in 1..Len(ps) |-> [ps[i] EXCEPT !.members = ps[i].members \o bg]]]

AppendBgndCell ==
    /\ fpc = "append"
    /\ asn_sci' = AddBackground(asn_sci, Get(fp_files, "sci-bgnd"))
    /\ asn_psf' = AddBackground(asn_psf, Get(fp_files, "psf-bgnd"))
    /\ fpc' = "write2"
    /\ UNCHANGED <<fp_i, det1_files, fp_files, img2_files, fp_files3, fp_asn,
                   demo_fs, calls, c3vars>>
    /\ UNCHANGED <<hdvars, ersvars>>

\* the two association files written under output_dir
WriteAsn2Cell ==
    /\ fpc = "write2"
    /\ demo_fs' = (sci_asn_path :> dump(asn_sci)) @@ (psf_asn_path :> dump(asn_psf))
                  @@ demo_fs
    /\ fpc' = "image2_sci"
    /\ UNCHANGED <<fp_i, det1_files, fp_files, asn_sci, asn_psf, img2_files,
                   fp_files3, fp_asn, calls, c3vars>>
    /\ UNCHANGED <<hdvars, ersvars>>

\* whether every member of every product of an association is a file
MembersExist(disk, asn) ==
    \A i \in 1..Len(asn.products) :
       \A j \in 1..Len(asn.products[i].members) :
          FsPath(asn.products[i].members[j].expname) \in DOMAIN disk

\* the science member of a Level 2 product
ScienceMember(product) ==
    product.members[CHOOSE j \in 1..Len(product.members) :
                       product.members[j].exptype = "science"]

\* Image2Pipeline with save_results=True and save_bsub=True writes, for each
\* product, the calints and the bsubints product of its science member into
\* output_dir, under the product's name
Image2Products(disk, asn, outdir) ==
    [q \in UNION {{Div(outdir, asn.products[i].name \o <<"calints", ".", "fits">>),
                   Div(outdir, asn.products[i].name \o <<"bsubints", ".", "fits">>)} :
                  i \in 1..Len(asn.products)} |->
        disk[FsPath(ScienceMember(
                asn.products[CHOOSE i \in 1..Len(asn.products) :
                                asn.products[i].name = BaseName(name(q))]).expname)]]

\* params of the Image2Pipeline cell
image2_params ==
    [output_dir |-> stage2_dir,
     save_results |-> TRUE,
     save_bsub |-> TRUE,
     steps |-> [bkg_subtract |-> [save_combined_background |-> TRUE]]]

\* img2 = Image2Pipeline.call(str(output_dir / <asn>), **params): the
\* pipeline reads the association file and its members, and raises when one
\* of them is not there
Image2Pipeline_call(asn_path, next) ==
    IF asn_path \in DOMAIN demo_fs /\ MembersExist(demo_fs, load(demo_fs[asn_path]))
    THEN /\ calls' = Append(calls, [pipeline |-> "Image2Pipeline",
                                    input |-> asn_path,
                                    params |-> image2_params,
                                    asn |-> load(demo_fs[asn_path])])
         /\ demo_fs' = Image2Products(demo_fs, load(demo_fs[asn_path]), stage2_dir)
                       @@ demo_fs
         /\ fpc' = next
    ELSE /\ fpc' = "error"
         /\ UNCHANGED <<calls, demo_fs>>

\* the first call of the cell, on the science target's association
Image2SciCall ==
    /\ fpc = "image2_sci"
    /\ Image2Pipeline_call(sci_asn_path, "image2_psf")
    /\ UNCHANGED <<fp_i, det1_files, fp_files, asn_sci, asn_psf, img2_files,
                   fp_files3, fp_asn, c3vars>>
    /\ UNCHANGED <<hdvars, ersvars>>

\* the second call of the cell, on the PSF reference star's association
Image2PsfCall ==
    /\ fpc = "image2_psf"
    /\ Image2Pipeline_call(psf_asn_path, "img2_files")
    /\ UNCHANGED <<fp_i, det1_files, fp_files, asn_sci, asn_psf, img2_files,
                   fp_files3, fp_asn, c3vars>>
    /\ UNCHANGED <<hdvars, ersvars>>

\* img2_files = sorted((output_dir / "stage2").glob("*calints.fits"))
Img2Files(disk) == sorted_glob(disk, stage2_dir, <<"calints", ".", "fits">>)

Img2FilesCell ==
    /\ fpc = "img2_files"
    /\ img2_files' = Img2Files(demo_fs)
    /\ fpc' = "sort3"
    /\ UNCHANGED <<fp_i, det1_files, fp_files, asn_sci, asn_psf, fp_files3,
                   fp_asn, demo_fs, calls, c3vars>>
    /\ UNCHANGED <<hdvars, ersvars>>

\* the cell that sorts the files into science or PSF target
FPSortCell ==
    /\ fpc = "sort3"
    /\ fp_files3' = SortByIsPsf(demo_fs, img2_files, EmptyFiles3)
    /\ fpc' = "asn3"
    /\ UNCHANGED <<fp_i, det1_files, fp_files, asn_sci, asn_psf, img2_files,
                   fp_asn, demo_fs, calls, c3vars>>
    /\ UNCHANGED <<hdvars, ersvars>>

\* asn = asn_from_list.asn_from_list(files['sci'], ...) and the psf members
FPAsnCell ==
    /\ fpc = "asn3"
    /\ fp_asn' = Coron3Asn(fp_files3)
    /\ fpc' = "write3"
    /\ UNCHANGED <<fp_i, det1_files, fp_files, asn_sci, asn_psf, img2_files,
                   fp_files3, demo_fs, calls, c3vars>>
    /\ UNCHANGED <<hdvars, ersvars>>

\* with open(str(output_dir / 'coron3_asn.json'), 'w') as fp: fp.write(asn.dump()[1])
FPWriteCell ==
    /\ fpc = "write3"
    /\ demo_fs' = (fp_asn_path :> dump(fp_asn)) @@ demo_fs
    /\ fpc' = "coron3"
    /\ UNCHANGED <<fp_i, det1_files, fp_files, asn_sci, asn_psf, img2_files,
                   fp_files3, fp_asn, calls, c3vars>>
    /\ UNCHANGED <<hdvars, ersvars>>

\* cor3 = Coron3Pipeline.call(str(output_dir / 'coron3_asn.json'), **params)
FPCoron3Cell ==
    /\ fpc = "coron3"
    /\ calls' = Append(calls, [pipeline |-> "Coron3Pipeline",
                               input |-> fp_asn_path,
                               params |-> [output_dir |-> stage3_dir,
                                           save_results |-> TRUE],
                               asn |-> load(demo_fs[fp_asn_path])])
    /\ fpc' = "done"
    /\ UNCHANGED <<fp_i, det1_files, fp_files, asn_sci, asn_psf, img2_files,
                   fp_files3, fp_asn, demo_fs, c3vars>>
    /\ UNCHANGED <<hdvars, ersvars>>

InitDemos == InitC3 \/ InitFP

NextDemos ==
    \/ C3FilenamesCell
    \/ C3ExampleCell
    \/ C3SortCell
    \/ C3AsnCell
    \/ C3WriteCell
    \/ C3RunCell
    \/ FPDownloadCell
    \/ Detector1Call
    \/ Det1FilesCell
    \/ SeparateCell
    \/ Asn2Cell
    \/ AppendBgndCell
    \/ WriteAsn2Cell
    \/ Image2SciCall
    \/ Image2PsfCall
    \/ Img2FilesCell
    \/ FPSortCell
    \/ FPAsnCell
    \/ FPWriteCell
    \/ FPCoron3Cell

SpecDemos == InitDemos /\ [][NextDemos]_vars

\* =====================================================================
\* Properties of the HD141569A notebook
\* =====================================================================
\* the names of the calints exposures in data_folder
DataNames ==
    {name(p) : p \in {q \in DOMAIN fs :
                        /\ parent(q) = <<data_folder>>
                        /\ EndsWith(q, <<"calints", ".", "fits">>)}}

SciOnDisk(f) == fs[PathJoin(data_folder, f)][2].data

NoDuplicateKeys(d) ==
    \A i, j \in 1..Len(d) : d[i][1] = d[j][1] => i = j

AfterMatch ==
    pc \in {"subtract", "write", "obsnum_files", "select", "asn", "coron3", "done"}

AfterSubtract ==
    pc \in {"write", "obsnum_files", "select", "asn", "coron3", "done"}

AfterWrite == pc \in {"obsnum_files", "select", "asn", "coron3", "done"}

\* the background observation paired with a target observation in the table
PairedWith(targ_obsnum, b) ==
    \E k \in 1..Len(bgnd_obsnum_mapper) :
        bgnd_obsnum_mapper[k] = <<targ_obsnum, b>>

\* C1: after the matching cell bgnd_img_mapper has exactly one entry for every
\* data file whose observation number (characters 7..9 of its name) is in
\* targ_obsnums and none for any other file; an entry's 'bgnd' is the
\* composite of the background observation that bgnd_obsnum_mapper pairs with
\* the file's observation number, and its 'targ' is the file's own SCI data.
C1_Matching ==
    AfterMatch =>
        /\ NoDuplicateKeys(bgnd_img_mapper)
        /\ Range(Keys(bgnd_img_mapper))
             = {f \in DataNames : \E t \in 1..Len(targ_obsnums) :
                                     SubSeq(f, 8, 10) = targ_obsnums[t]}
        /\ \A i \in 1..Len(bgnd_img_mapper) :
             LET f == bgnd_img_mapper[i][1]
                 pair == bgnd_img_mapper[i][2]
             IN /\ pair.targ = SciOnDisk(f)
                /\ \E j \in 1..Len(bgnd_imgs) :
                     /\ PairedWith(SubSeq(f, 8, 10), bgnd_imgs[j][1])
                     /\ pair.bgnd = bgnd_imgs[j][2]

\* the matching cell has run on a folder with targets of different backgrounds
\* and with files that are no targets
C1_Witness ==
    /\ pc = "subtract"
    /\ Len(bgnd_img_mapper) >= 2
    /\ \E i, j \in 1..Len(bgnd_img_mapper) :
          bgnd_img_mapper[i][2].bgnd # bgnd_img_mapper[j][2].bgnd
    /\ Cardinality(DataNames) > Len(bgnd_img_mapper)

\* C2: after the subtraction cell bgnd_sub_imgs has the keys of
\* bgnd_img_mapper, every plane of a stored image is the same plane of the
\* target image minus the paired 2-D composite, pixel by pixel, and the target
\* and background images held in bgnd_img_mapper are as the matching cell left
\* them.
C2_Subtraction ==
    AfterSubtract =>
        /\ NoDuplicateKeys(bgnd_sub_imgs)
        /\ Range(Keys(bgnd_sub_imgs)) = Range(Keys(bgnd_img_mapper))
        /\ \A i \in 1..Len(bgnd_sub_imgs) :
             LET f == bgnd_sub_imgs[i][1]
                 img == bgnd_sub_imgs[i][2]
                 pair == Get(bgnd_img_mapper, f)
                 npix == Len(pair.bgnd.data)
                 nplanes == Len(pair.targ.data) \div npix
             IN /\ ndim(pair.bgnd) = 2
                /\ img.shape = pair.targ.shape
                /\ Len(img.data) = nplanes * npix
                /\ \A k \in 1..nplanes, q \in 1..npix :
                     img.data[(k - 1) * npix + q]
                       = FSub(pair.targ.data[(k - 1) * npix + q], pair.bgnd.data[q])
                /\ pair.targ = SciOnDisk(f)
                /\ \E j \in 1..Len(bgnd_imgs) :
                     /\ PairedWith(SubSeq(f, 8, 10), bgnd_imgs[j][1])
                     /\ pair.bgnd = bgnd_imgs[j][2]

\* a subtraction that changed a pixel, and one on a NaN pixel
C2_Witness ==
    /\ pc = "write"
    /\ \E i \in 1..Len(bgnd_sub_imgs) :
         LET img == bgnd_sub_imgs[i][2]
             targ == Get(bgnd_img_mapper, bgnd_sub_imgs[i][1]).targ
         IN /\ Len(targ.shape) = 3 /\ targ.shape[1] > 1
            /\ \E q \in 1..Len(img.data) : ~IsNaN(img.data[q]) /\ img.data[q] # targ.data[q]
            /\ \E q \in 1..Len(img.data) : IsNaN(img.data[q])

\* the exposures on disk of a background observation
ExposuresOf(num) == {f \in DataNames : SubSeq(f, 8, 10) = num}

\* m is the least of the values that are not NaN (NaN when there is none)
IsNanMin(m, vals) ==
    LET I == {i \in 1..Len(vals) : ~IsNaN(vals[i])}
    IN IF I = {} THEN IsNaN(m)
       ELSE /\ \E i \in I : m = vals[i]
            /\ \A i \in I : ~RLess(vals[i], m)

\* m is the median of the values that are not NaN (NaN when there is none):
\* the mean of the values of ranks (k+1) div 2 and k div 2 + 1 among the k
IsNanMedian(m, vals) ==
    LET I == {i \in 1..Len(vals) : ~IsNaN(vals[i])}
        k == Cardinality(I)
        Below(x) == Cardinality({i \in I : RLess(vals[i], x)})
        UpTo(x) == Cardinality({i \in I : ~RLess(x, vals[i])})
        HasRank(x, r) == Below(x) < r /\ r <= UpTo(x)
    IN IF I = {} THEN IsNaN(m)
       ELSE \E a, b \in I :
               /\ HasRank(vals[a], (k + 1) \div 2)
               /\ HasRank(vals[b], k \div 2 + 1)
               /\ ~IsNaN(m)
               /\ m[1] * 2 * vals[a][2] * vals[b][2]
                    = (vals[a][1] * vals[b][2] + vals[b][1] * vals[a][2]) * m[2]

\* C3: the composite of every background observation is built from all and
\* only the data files of that observation number; more than one exposure is
\* combined per pixel with the NaN-ignoring median (more than two exposures)
\* or minimum (two), and one exposure is taken as it is.
C3_Composite ==
    /\ pc \notin {"load", "bgnd_files"} =>
          /\ Range(Keys(bgnd_files)) = Range(bgnd_obsnums)
          /\ \A i \in 1..Len(bgnd_files) :
                /\ Range(bgnd_files[i][2]) = ExposuresOf(bgnd_files[i][1])
                /\ Len(bgnd_files[i][2]) = Cardinality(ExposuresOf(bgnd_files[i][1]))
    /\ pc = "bgnd_while" /\ nflat = 0 =>
          LET fls == bgnd_files[bgnd_i][2]
              n == Len(fls)
          IN /\ n >= 1
             /\ bgnd_img.shape = SciOnDisk(fls[1]).shape
             /\ \A q \in 1..Len(SciOnDisk(fls[1]).data) :
                   LET vals == [e \in 1..n |-> SciOnDisk(fls[e]).data[q]]
                   IN IF n = 1 THEN bgnd_img.data[q] = vals[1]
                      ELSE IF n = 2 THEN IsNanMin(bgnd_img.data[q], vals)
                      ELSE IsNanMedian(bgnd_img.data[q], vals)

\* three exposures combined, with a pixel whose median is the mean of two
\* values because the third is NaN, and a pixel that is not the least value
C3_Witness ==
    /\ pc = "bgnd_while" /\ nflat = 0
    /\ Len(bgnd_files[bgnd_i][2]) = 3
    /\ \E q \in 1..Len(bgnd_img.data) : bgnd_img.data[q][2] = 2
    /\ \E q \in 1..Len(bgnd_img.data) :
          \E e \in 1..3 : RLess(SciOnDisk(bgnd_files[bgnd_i][2][e]).data[q],
                                bgnd_img.data[q])

\* C4: every composite stored in bgnd_imgs is exactly 2-D whatever the
\* number of axes (2 or more) of the exposures, and the flattening loop
\* terminates.
C4_TwoD ==
    /\ [](\A i \in 1..Len(bgnd_imgs) : ndim(bgnd_imgs[i][2]) = 2)
    /\ (pc = "bgnd_while") ~> (pc # "bgnd_while")

\* a composite of 4-D exposures is stored after two passes of the loop
C4_Witness ==
    /\ nflat = 2
    /\ Len(bgnd_imgs) = 1
    /\ pc = "bgnd_for"
    /\ ndim(SciOnDisk(bgnd_files[1][2][1])) = 4

\* the path write_bgsub writes for the target named f
BgsubPathOf(f) ==
    <<bgsub_path, "/">> \o SubSeq(f, 1, Len(f) - 2) \o <<"_bgsub", ".", "fits">>

\* C5: write_bgsub(targ_file, img, path) writes path/<stem>_bgsub<suffix>
\* and never modifies targ_file; the written file has the HDUs of targ_file in
\* the same order, its HDU 1 data is img and every other HDU (the ASDF
\* extension too) equals that of targ_file.
C5_WriteBgsub ==
    /\ [](AfterWrite =>
            \A i \in 1..Len(bgnd_sub_imgs) :
               LET f == bgnd_sub_imgs[i][1]
                   targ == fs[PathJoin(data_folder, f)]
               IN /\ BgsubPathOf(f) \in DOMAIN fs
                  /\ Len(fs[BgsubPathOf(f)]) = Len(targ)
                  /\ fs[BgsubPathOf(f)][2].data = bgnd_sub_imgs[i][2]
                  /\ \A h \in 1..Len(targ) :
                        h # 2 => fs[BgsubPathOf(f)][h] = targ[h]
                  /\ fs[BgsubPathOf(f)][Len(targ)].hdr = <<"ASDF">>)
    /\ [][\A p \in DOMAIN fs :
            parent(p) = <<data_folder>> => p \in DOMAIN fs' /\ fs'[p] = fs[p]]_vars

\* files have been written, one of them with data other than its target's
C5_Witness ==
    /\ pc = "obsnum_files"
    /\ Len(bgnd_sub_imgs) >= 2
    /\ \E i \in 1..Len(bgnd_sub_imgs) :
          fs[BgsubPathOf(bgnd_sub_imgs[i][1])][2].data
             # fs[PathJoin(data_folder, bgnd_sub_imgs[i][1])][2].data

C7_DummyAsn ==
    pc = "coron3" =>
       LET path == SubSeq(asn_file[sect], 1, Len(asn_file[sect]) - 2) \o <<".", "json">>
       IN /\ path \in DOMAIN json_fs
          /\ ParseMembers(json_fs[path])
               = [i \in 1..Len(files) |->
                    << <<<<"expname">>, files[i][1]>>, <<<<"exptype">>, files[i][2]>> >>]
          /\ JsonValue(json_fs[path], "name") = asn_name[sect]
          /\ JsonValue(json_fs[path], "program") = asn_name[sect]
          /\ JsonValue(json_fs[path], "asn_pool") = asn_name[sect] \o <<"-pool">>

\* =====================================================================
\* Properties of the ERS-01386 notebook
\* =====================================================================
\* the download cell has ended, by the end of its loop or by an exception
DownloadEnded == Len(after_loop) = 1

\* the files of out_dir on a disk
InOutDir(disk) == {q \in DOMAIN disk : parent(q) = <<out_dir>>}

\* C8: in the download loop, a product whose file out_dir/<product> exists
\* when the loop reaches it is skipped: the file is not opened for writing,
\* and its content after the loop is its content before the loop.
C8_SkipExisting ==
    \A p \in existed :
       /\ outfile(p) \notin opened
       /\ outfile(p) \in DOMAIN fs0
       /\ epc = "download" => /\ outfile(p) \in DOMAIN ers_fs
                              /\ ers_fs[outfile(p)] = fs0[outfile(p)]
       /\ DownloadEnded => /\ outfile(p) \in DOMAIN after_loop[1]
                           /\ after_loop[1][outfile(p)] = fs0[outfile(p)]

\* a product whose request succeeded was skipped, and the loop went on to
\* its end
C8_Witness ==
    /\ epc = "copy"
    /\ \E p \in existed : p \notin failed
    /\ \E p \in existed : p \in failed

\* C9: the download loop visits every product of the products list, and when
\* it finishes every product whose request succeeded and whose file did not
\* exist before has a file out_dir/<product> holding the complete response
\* body.
C9_DownloadComplete ==
    DownloadEnded =>
       /\ nvisited = Len(products)
       /\ \A j \in 1..Len(products) :
             (products[j] \notin failed /\ outfile(products[j]) \notin DOMAIN fs0)
             => /\ outfile(products[j]) \in DOMAIN after_loop[1]
                /\ after_loop[1][outfile(products[j])] = Body(products[j], FALSE)

\* C10: after the download, no cell modifies the files kept in data-bkp, the
\* background subtraction cells run with their guard enabled included: the
\* files of data-bkp stay what the download cell left.
C10_OriginalsKept ==
    DownloadEnded =>
       /\ InOutDir(ers_fs) = InOutDir(after_loop[1])
       /\ \A q \in InOutDir(ers_fs) : ers_fs[q] = after_loop[1][q]

\* the background exposure a subtraction cell reads, as the download left it
BgndOf(exptype) ==
    LET bgnd == IF exptype = "science" THEN sci_bgnd_file ELSE ref_bgnd_file
    IN getdata(after_loop[1], PathJoin(out_dir, Get(bgnd[1], "FILENAME")), 1)

\* C11: once both background subtraction cells have been executed with their
\* guard enabled, every science and reference exposure that Coron3Pipeline
\* reads through the association file of the working directory holds the
\* background-subtracted data: the downloaded data minus the background
\* image of its kind.
C11_PipelineReadsSubtracted ==
    \A c \in 1..Len(ers_cor3) :
       guards_on = {"sci_bgsub", "ref_bgsub"} =>
          \A j \in 1..Len(ers_cor3[c].members) :
             ers_cor3[c].inputs[j][2].data =
                BroadcastSub(after_loop[1][outfile(ers_cor3[c].members[j][1])][2].data,
                             BgndOf(ers_cor3[c].members[j][2]))

\* C17: the output-directory cell creates data-bkp when it does not exist,
\* raises and changes nothing when it exists and cannot be written to,
\* changes nothing when it exists and can be written to, and data-bkp exists
\* whenever the cell completes without raising.
C17_OutDir ==
    [][epc = "out_dir" =>
         /\ ~dir_exists => dir_exists' /\ epc' = "download" /\ ers_fs' = ers_fs
         /\ (dir_exists /\ ~dir_writable) =>
               /\ epc' = "error"
               /\ UNCHANGED <<dir_exists, dir_writable, ers_fs>>
         /\ (dir_exists /\ dir_writable) =>
               /\ epc' = "download"
               /\ UNCHANGED <<dir_exists, dir_writable, ers_fs>>
         /\ epc' # "error" => dir_exists']_vars

\* the cell has raised on a directory that cannot be written to
C17_Witness ==
    /\ epc = "error"
    /\ nvisited = 0
    /\ after_loop = <<>>
    /\ dir_exists
    /\ ~dir_writable

\* =====================================================================
\* Properties of the pipeline_demos notebooks
\* =====================================================================
\* the positions in calls of the calls of one pipeline class
CallsOf(pipeline) == {k \in 1..Len(calls) : calls[k].pipeline = pipeline}

\* the members of an association, over all its products
MembersOf(asn) ==
    UNION {Range(asn.products[i].members) : i \in 1..Len(asn.products)}

\* whether an expname names a file of folder dir whose name ends with post
IsProductOf(expname, dir, post) ==
    /\ parent(FsPath(expname)) = dir
    /\ EndsWith(name(FsPath(expname)), post)
    /\ FsPath(expname) \in DOMAIN demo_fs

\* C12: in the full_pipeline notebook Detector1Pipeline is called once for
\* every file of filenames, in list order; Image2Pipeline is called only
\* after all the Stage 1 calls, and every member of its two associations is
\* a rateints file of the Stage 1 output folder; Coron3Pipeline is called
\* only after both Image2Pipeline calls, and every member of its association
\* is a calints file of the Stage 2 output folder.
C12_StageOrder ==
    /\ \A k \in CallsOf("Detector1Pipeline") :
          /\ k <= Len(filenames)
          /\ calls[k].input = Div(uncal_dir, filenames[k])
    /\ fpc \in {"det1_files", "separate", "asn2", "append", "write2",
                "image2_sci", "image2_psf", "img2_files", "sort3", "asn3",
                "write3", "coron3", "done"}
          => CallsOf("Detector1Pipeline") = 1..Len(filenames)
    /\ \A k \in CallsOf("Image2Pipeline") :
          /\ k > Len(filenames)
          /\ CallsOf("Detector1Pipeline") = 1..Len(filenames)
          /\ calls[k].input \in {sci_asn_path, psf_asn_path}
          /\ \A m \in MembersOf(calls[k].asn) :
                IsProductOf(m.expname, stage1_dir, <<"rateints", ".", "fits">>)
    /\ \A k \in CallsOf("Coron3Pipeline") :
          fpc # "idle" =>
             /\ {calls[j].input : j \in {i \in CallsOf("Image2Pipeline") : i < k}}
                   = {sci_asn_path, psf_asn_path}
             /\ \A m \in MembersOf(calls[k].asn) :
                   IsProductOf(m.expname, stage2_dir, <<"calints", ".", "fits">>)

\* the three stages have run over folders that held files of earlier runs
C12_Witness ==
    /\ fpc = "done"
    /\ Len(calls) = Len(filenames) + 3
    /\ DOMAIN StaleStage1 \subseteq DOMAIN demo_fs
    /\ DOMAIN StaleStage2 \subseteq DOMAIN demo_fs
    /\ MembersOf(calls[Len(calls)].asn) # {}

\* the association files on disk
AsnFiles == {q \in DOMAIN demo_fs : EndsWith(q, <<".", "json">>)}

\* C13: every association file a notebook writes is in the notebook's own
\* output folder: under stage3/output for calwebb_coron3, under
\* full_pipeline_output for full_pipeline.
C13_AsnInOutputFolder ==
    \A q \in AsnFiles :
       /\ c3pc # "idle" => IsUnder(q, stage3_output)
       /\ fpc # "idle" => IsUnder(q, fp_output_dir)

\* the exposures of one observation among the Stage 1 products, without the
\* target acquisitions
Stage1Exposures(obsnum) ==
    {resolve(q) : q \in {r \in DOMAIN demo_fs :
                           /\ parent(r) = stage1_dir
                           /\ EndsWith(name(r), <<"rateints", ".", "fits">>)
                           /\ getval(demo_fs, r, "EXP_TYPE") # "MIR_TACQ"
                           /\ int(getval(demo_fs, r, "OBSERVTN")) = obsnum}}

\* the background members of a product
BackgroundsOf(product) ==
    {m.expname : m \in {x \in Range(product.members) : x.exptype = "background"}}

\* every product of asn has the star exposure it was made for as its science
\* member, all of own as its background members, and none of other
ListsBackgrounds(asn, stars, own, other) ==
    /\ Len(asn.products) = Len(stars)
    /\ \A i \in 1..Len(asn.products) :
          /\ BackgroundsOf(asn.products[i]) = own
          /\ \A m \in Range(asn.products[i].members) : m.expname \notin other
          /\ asn.products[i].members[1] = [expname |-> stars[i], exptype |-> "science"]
          /\ \A j \in 2..Len(asn.products[i].members) :
                asn.products[i].members[j].exptype = "background"

\* C14: in the full_pipeline notebook, once the background members have been
\* appended, every product of the science target's Stage 2 association lists
\* every Obs 30 exposure as a background member and no Obs 31 exposure, every
\* product of the PSF reference association lists every Obs 31 exposure as
\* a background member and no Obs 30 exposure, and the star exposure of each
\* product is still its science member.
C14_Backgrounds ==
    fpc \in {"write2", "image2_sci", "image2_psf", "img2_files", "sort3",
             "asn3", "write3", "coron3", "done"} =>
       /\ ListsBackgrounds(asn_sci, Get(fp_files, "sci"),
                           Stage1Exposures(30), Stage1Exposures(31))
       /\ ListsBackgrounds(asn_psf, Get(fp_files, "psf"),
                           Stage1Exposures(31), Stage1Exposures(30))

\* both associations have several products, and each kind of background has
\* its exposures
C14_Witness ==
    /\ fpc = "write2"
    /\ Len(asn_sci.products) > 1
    /\ Len(asn_psf.products) > 1
    /\ Cardinality(Stage1Exposures(30)) > 1
    /\ Cardinality(Stage1Exposures(31)) > 1
    /\ Stage1Exposures(30) \cap Stage1Exposures(31) = {}

\* the calints files of a folder, as the sorting cell names them
CalintsIn(dir) ==
    {resolve(q) : q \in {r \in DOMAIN demo_fs :
                           /\ parent(r) = dir
                           /\ EndsWith(name(r), <<"calints", ".", "fits">>)}}

\* every calints file of dir is in exactly one list of fls, in 'psf' exactly
\* when its IS_PSF keyword is true
SortedByIsPsf(fls, dir) ==
    /\ Range(Get(fls, "sci")) \cup Range(Get(fls, "psf")) = CalintsIn(dir)
    /\ Len(Get(fls, "sci")) + Len(Get(fls, "psf")) = Cardinality(CalintsIn(dir))
    /\ \A f \in CalintsIn(dir) :
          f \in Range(Get(fls, "psf")) <=> (getval(demo_fs, f, "IS_PSF") = TRUE)

\* asn has one product, whose members are the files of fls['sci'] as science
\* and the files of fls['psf'] as psf, each once
SingleProduct(asn, fls) ==
    /\ Len(asn.products) = 1
    /\ Range(asn.products[1].members) =
          {[expname |-> f, exptype |-> "science"] : f \in Range(Get(fls, "sci"))}
          \cup {[expname |-> f, exptype |-> "psf"] : f \in Range(Get(fls, "psf"))}
    /\ Len(asn.products[1].members) = Len(Get(fls, "sci")) + Len(Get(fls, "psf"))

\* C15: in the calwebb_coron3 and the full_pipeline notebooks every Stage 2
\* calints file is in exactly one of files['sci'] and files['psf'], in 'psf'
\* exactly when its IS_PSF keyword is true, and the Stage 3 association has
\* one product, which lists the files of files['sci'] as science, the files
\* of files['psf'] as psf, and nothing else.
C15_SortAndAssociate ==
    /\ c3_files # <<>> => SortedByIsPsf(c3_files, stage2_asn_all)
    /\ c3_asn # <<>> => SingleProduct(c3_asn, c3_files)
    /\ fp_files3 # <<>> => SortedByIsPsf(fp_files3, stage2_dir)
    /\ fp_asn # <<>> => SingleProduct(fp_asn, fp_files3)

\* the calwebb_coron3 notebook has built its association from science and
\* PSF files, one of them an exposure of observation 7 that is no PSF
C15_Witness ==
    /\ c3_asn # <<>>
    /\ Get(c3_files, "psf") # <<>>
    /\ \E f \in Range(Get(c3_files, "sci")) :
          getval(demo_fs, f, "OBSERVTN") = <<"0", "0", "7">>

\* C16: the Run Coron3 cell of the calwebb_coron3 notebook executes and calls
\* Coron3Pipeline on stage3/coron3_asn.json with output_dir
\* './stage3/output/', save_results True and the klip step's truncate set to
\* 25 instead of its default 50.
C16_RunCoron3 ==
    (c3pc \in {"done", "error"} /\ c3_asn_path \in DOMAIN demo_fs) =>
       \E k \in CallsOf("Coron3Pipeline") :
          /\ calls[k].input = c3_asn_path
          /\ calls[k].params.output_dir = <<".", "/", "stage3", "/", "output", "/">>
          /\ calls[k].params.save_results = TRUE
          /\ calls[k].params.steps.klip.truncate = 25
          /\ calls[k].params.steps.klip.truncate # klip_truncate_default

====
